---- MODULE Spec2Model ----
(***************************************************************************)
(* Model of src/product_management.py (ProductManagementInterface): the    *)
(* product catalog kept in the SQLite table "products", the add/edit       *)
(* dialog, deletion, CSV import/export and barcode-label printing.         *)
(*                                                                         *)
(* Text is modelled as a sequence of one-character strings so that the     *)
(* conversions of the code (strip, replace, int, float, strptime, strftime,*)
(* zfill, str) are computed character by character.                        *)
(***************************************************************************)
EXTENDS Integers, Sequences, FiniteSets, TLC

(***************************************************************************)
(* Characters and text helpers                                             *)
(***************************************************************************)
Digits == <<"0", "1", "2", "3", "4", "5", "6", "7", "8", "9">>

DigitSet == {"0", "1", "2", "3", "4", "5", "6", "7", "8", "9"}

IsDigit(c) == c \in DigitSet

DigitVal(c) == (CHOOSE i \in 1..10 : Digits[i] = c) - 1

AllDigits(s) == \A i \in 1..Len(s) : IsDigit(s[i])

\* str.strip(): drop leading and trailing blanks
RECURSIVE LStrip(_)
LStrip(s) == IF s # <<>> /\ Head(s) = " " THEN LStrip(Tail(s)) ELSE s

RECURSIVE RStrip(_)
RStrip(s) ==
    IF s # <<>> /\ s[Len(s)] = " " THEN RStrip(SubSeq(s, 1, Len(s) - 1)) ELSE s

Strip(s) == RStrip(LStrip(s))

\* str.replace(",", "")
RemoveCommas(s) == SelectSeq(s, LAMBDA c : c # ",")

\* value of a sequence of digits (short enough for a machine integer)
RECURSIVE DigitsToNat(_)
DigitsToNat(s) ==
    IF s = <<>> THEN 0
    ELSE 10 * DigitsToNat(SubSeq(s, 1, Len(s) - 1)) + DigitVal(s[Len(s)])

\* str(n) for n >= 0
RECURSIVE NatToChars(_)
NatToChars(n) ==
    IF n < 10 THEN <<Digits[n + 1]>>
    ELSE NatToChars(n \div 10) \o <<Digits[(n % 10) + 1]>>

\* str.zfill(width)
RECURSIVE ZFill(_, _)
ZFill(s, width) == IF Len(s) >= width THEN s ELSE ZFill(<<"0">> \o s, width)

RECURSIVE Pow10(_)
Pow10(k) == IF k = 0 THEN 1 ELSE 10 * Pow10(k - 1)

\* positions of the separator c in s, and the pieces between them
RECURSIVE SplitOn(_, _)
SplitOn(s, c) ==
    IF \E i \in 1..Len(s) : s[i] = c
    THEN LET i == CHOOSE j \in 1..Len(s) :
                      s[j] = c /\ \A k \in 1..(j - 1) : s[k] # c
         IN  <<SubSeq(s, 1, i - 1)>> \o SplitOn(SubSeq(s, i + 1, Len(s)), c)
    ELSE <<s>>

RECURSIVE DropLeadingZeros(_)
DropLeadingZeros(s) ==
    IF Len(s) > 1 /\ Head(s) = "0" THEN DropLeadingZeros(Tail(s)) ELSE s

(***************************************************************************)
(* Numbers: int(), float(), str() of Python as the code uses them.         *)
(* The characters of the modelled inputs are digits, "-", ".", ",", "/",   *)
(* blank and a few letters; on that alphabet int() accepts [-]digits and   *)
(* float() accepts [-]digits[.digits] and [-].digits.                      *)
(***************************************************************************)
ValueError == [ok |-> FALSE]

HasSign(t) == t # <<>> /\ Head(t) = "-"

Unsigned(t) == IF HasSign(t) THEN Tail(t) ELSE t

\* int(text): an integer of any size, kept as sign and magnitude digits
ParseInt(s) ==
    LET t == Strip(s)
        u == Unsigned(t)
    IN  IF u # <<>> /\ AllDigits(u)
        THEN [ok |-> TRUE, neg |-> HasSign(t), mag |-> DropLeadingZeros(u)]
        ELSE ValueError

IntIsNegative(q) == q.neg /\ q.mag # <<"0">>

\* decimal m * 10^(-e), without trailing zeros in the fraction
RECURSIVE DecNorm(_, _)
DecNorm(m, e) ==
    IF e > 0 /\ m % 10 = 0 THEN DecNorm(m \div 10, e - 1) ELSE [m |-> m, e |-> e]

\* float(text)
ParseFloat(s) ==
    LET t     == Strip(s)
        u     == Unsigned(t)
        parts == SplitOn(u, ".")
        ip    == parts[1]
        fp    == IF Len(parts) = 2 THEN parts[2] ELSE <<>>
    IN  IF /\ Len(parts) <= 2
           /\ AllDigits(ip) /\ AllDigits(fp)
           /\ Len(ip) + Len(fp) > 0
        THEN LET mag == DigitsToNat(ip \o fp)
                 d   == DecNorm(IF HasSign(t) THEN 0 - mag ELSE mag, Len(fp))
             IN  [ok |-> TRUE, m |-> d.m, e |-> d.e]
        ELSE ValueError

Dec(m, e) == [m |-> m, e |-> e]

DecLess(a, b) == a.m * Pow10(b.e) < b.m * Pow10(a.e)

DecLeqZero(a) == a.m <= 0

\* str(int) as csv.writer writes an INTEGER column
FormatInt(n) == IF n < 0 THEN <<"-">> \o NatToChars(0 - n) ELSE NatToChars(n)

\* repr(float) as csv.writer writes a REAL column
FormatFloat(d) ==
    LET mag  == IF d.m < 0 THEN 0 - d.m ELSE d.m
        sign == IF d.m < 0 THEN <<"-">> ELSE <<>>
        ip   == NatToChars(mag \div Pow10(d.e))
        fp   == IF d.e = 0 THEN <<"0">>
                ELSE ZFill(NatToChars(mag % Pow10(d.e)), d.e)
    IN  sign \o ip \o <<".">> \o fp

(***************************************************************************)
(* Dates: datetime.strptime / strftime and QDate.toString("yyyy-MM-dd")    *)
(***************************************************************************)
IsLeap(y) == (y % 4 = 0 /\ y % 100 # 0) \/ y % 400 = 0

DaysIn(y, m) ==
    IF m = 2 THEN (IF IsLeap(y) THEN 29 ELSE 28)
    ELSE IF m \in {4, 6, 9, 11} THEN 30 ELSE 31

\* one or two digits (%d, %m)
ShortField(f) == Len(f) \in {1, 2} /\ AllDigits(f)

\* exactly four digits (%Y)
YearField(f) == Len(f) = 4 /\ AllDigits(f)

MakeDate(yf, mf, df) ==
    LET y == DigitsToNat(yf)
        m == DigitsToNat(mf)
        d == DigitsToNat(df)
    IN  IF y >= 1 /\ m \in 1..12 /\ d >= 1 /\ d <= DaysIn(y, m)
        THEN [ok |-> TRUE, y |-> y, m |-> m, d |-> d]
        ELSE ValueError

\* datetime.strptime(text, "%d/%m/%Y")
ParseDMY(s) ==
    LET p == SplitOn(s, "/")
    IN  IF Len(p) = 3 /\ ShortField(p[1]) /\ ShortField(p[2]) /\ YearField(p[3])
        THEN MakeDate(p[3], p[2], p[1])
        ELSE ValueError

\* datetime.strptime(text, "%Y-%m-%d")
ParseISO(s) ==
    LET p == SplitOn(s, "-")
    IN  IF Len(p) = 3 /\ YearField(p[1]) /\ ShortField(p[2]) /\ ShortField(p[3])
        THEN MakeDate(p[1], p[2], p[3])
        ELSE ValueError

\* strftime("%Y-%m-%d"), QDate.toString("yyyy-MM-dd")
FormatISO(dt) ==
    ZFill(NatToChars(dt.y), 4) \o <<"-">> \o ZFill(NatToChars(dt.m), 2)
        \o <<"-">> \o ZFill(NatToChars(dt.d), 2)

DateLess(a, b) ==
    \/ a.y < b.y
    \/ a.y = b.y /\ a.m < b.m
    \/ a.y = b.y /\ a.m = b.m /\ a.d < b.d

(***************************************************************************)
(* The products table (create_tables) and the SQL statements issued on it  *)
(***************************************************************************)
\* SQL NULL / Python None: not a text
NULL == <<"NULL">>

AllColumns ==
    {"name", "quantity", "purchase_price", "sale_price", "expiry_date",
     "barcode", "image_path", "supplier_name", "supplier_phone"}

\* column defaults of CREATE TABLE products
ColumnDefault(c) ==
    IF c = "quantity" THEN 0
    ELSE IF c \in {"purchase_price", "sale_price"} THEN Dec(0, 0)
    ELSE NULL

\* largest value of an SQLite INTEGER, 2^63 - 1, as digits
MaxInt64Digits ==
    <<"9", "2", "2", "3", "3", "7", "2", "0", "3", "6",
      "8", "5", "4", "7", "7", "5", "8", "0", "7">>

\* lexicographic a <= b for digit sequences of equal length
DigitsLeq(a, b) ==
    \/ a = b
    \/ \E i \in 1..Len(a) :
          /\ DigitVal(a[i]) < DigitVal(b[i])
          /\ \A k \in 1..(i - 1) : a[k] = b[k]

\* whether the sqlite3 module can bind the Python int q (else OverflowError)
FitsInt64(q) ==
    \/ Len(q.mag) < Len(MaxInt64Digits)
    \/ Len(q.mag) = Len(MaxInt64Digits) /\ DigitsLeq(q.mag, MaxInt64Digits)

\* the machine value of a Python int of at most nine digits
IntValue(q) == IF q.neg THEN 0 - DigitsToNat(q.mag) ELSE DigitsToNat(q.mag)

\* the row an INSERT ... (cols) VALUES (vals) builds: unlisted columns
\* take their defaults
RowOf(cols, vals) ==
    [c \in AllColumns |->
        IF \E i \in 1..Len(cols) : cols[i] = c
        THEN vals[CHOOSE i \in 1..Len(cols) : cols[i] = c]
        ELSE ColumnDefault(c)]

\* SELECT MAX(id) FROM products ... or 0
MaxId(ps) ==
    IF ps = {} THEN 0 ELSE CHOOSE n \in {r.id : r \in ps} : \A r \in ps : r.id <= n

Barcodes(ps) == {r.barcode : r \in ps}

\* the constraints of a table whose barcode column is not UNIQUE
ConstraintsHoldNoUnique(row, others) ==
    /\ row.name # NULL
    /\ row.purchase_price.m >= 0
    /\ row.sale_price.m >= 0

\* NOT NULL and CHECK(purchase_price >= 0), CHECK(sale_price >= 0), and
\* barcode TEXT UNIQUE against the rows `others`
ConstraintsHold(row, others) ==
    /\ row.name # NULL
    /\ row.purchase_price.m >= 0
    /\ row.sale_price.m >= 0
    /\ row.barcode = NULL \/ row.barcode \notin Barcodes(others)

Bind(row) == [row EXCEPT !.quantity = IntValue(row.quantity)]

\* an INSERT into a table whose id is a plain INTEGER PRIMARY KEY: the new
\* id is MAX(id) + 1, so the id of a deleted last row is given out again
SqlInsertReuseIds(st, cols, vals) ==
    LET row == RowOf(cols, vals)
        id  == MaxId(st.products) + 1
    IN  IF ~FitsInt64(row.quantity)
        THEN [status |-> "OverflowError", products |-> st.products, seq |-> st.seq]
        ELSE IF ~ConstraintsHold(row, st.products)
        THEN [status |-> "IntegrityError", products |-> st.products, seq |-> st.seq]
        ELSE [status   |-> "ok",
              products |-> st.products \cup {[id |-> id] @@ Bind(row)},
              seq      |-> IF id > st.seq THEN id ELSE st.seq]

\* INSERT INTO products (cols) VALUES (vals) on the store st = [products, seq];
\* id INTEGER PRIMARY KEY AUTOINCREMENT never reuses an id
SqlInsert(st, cols, vals) ==
    LET row == RowOf(cols, vals)
        id  == (IF st.seq > MaxId(st.products) THEN st.seq ELSE MaxId(st.products)) + 1
    IN  IF ~FitsInt64(row.quantity)
        THEN [status |-> "OverflowError", products |-> st.products, seq |-> st.seq]
        ELSE IF ~ConstraintsHold(row, st.products)
        THEN [status |-> "IntegrityError", products |-> st.products, seq |-> st.seq]
        ELSE [status   |-> "ok",
              products |-> st.products \cup {[id |-> id] @@ Bind(row)},
              seq      |-> id]

\* an UPDATE that looks for the row under the barcode being written
SqlUpdateKeyedByNew(st, cols, vals, old) ==
    LET set    == RowOf(cols, vals)
        hit    == {r \in st.products : r.barcode = set.barcode}
        others == st.products \ hit
    IN  IF hit = {}
        THEN [status |-> "ok", products |-> st.products, seq |-> st.seq]
        ELSE [status   |-> "ok",
              products |-> others \cup {[id |-> r.id] @@ Bind(set) : r \in hit},
              seq      |-> st.seq]

\* UPDATE products SET cols = vals WHERE barcode = old
SqlUpdate(st, cols, vals, old) ==
    LET hit    == {r \in st.products : r.barcode = old}
        others == st.products \ hit
        set    == RowOf(cols, vals)
    IN  IF hit = {}
        THEN [status |-> "ok", products |-> st.products, seq |-> st.seq]
        ELSE IF ~FitsInt64(set.quantity)
        THEN [status |-> "OverflowError", products |-> st.products, seq |-> st.seq]
        ELSE IF ~ConstraintsHold(set, others)
        THEN [status |-> "IntegrityError", products |-> st.products, seq |-> st.seq]
        ELSE [status   |-> "ok",
              products |-> others \cup {[id |-> r.id] @@ Bind(set) : r \in hit},
              seq      |-> st.seq]

\* DELETE FROM products WHERE barcode = bc
SqlDelete(ps, bc) == {r \in ps : r.barcode # bc}

\* SELECT name, ..., supplier_phone FROM products WHERE barcode = bc; fetchone()
EditSelect(ps, bc) ==
    IF \E r \in ps : r.barcode = bc
    THEN LET r == CHOOSE x \in ps : x.barcode = bc
         IN  <<r.name, r.quantity, r.purchase_price, r.sale_price, r.expiry_date,
               r.barcode, r.image_path, r.supplier_name, r.supplier_phone>>
    ELSE NULL

\* an allocator that numbers by COUNT(*) instead of MAX(id)
AllocateByCount(ps) == <<"C", "B">> \o ZFill(NatToChars(Cardinality(ps) + 1), 8)

\* f"CB{str(last_id + 1).zfill(8)}" with last_id = SELECT MAX(id) or 0
AllocateBarcode(ps) == <<"C", "B">> \o ZFill(NatToChars(MaxId(ps) + 1), 8)

(***************************************************************************)
(* State                                                                   *)
(***************************************************************************)
VARIABLES
    products,   \* rows of the products table as the connection sees them
    seq,        \* sqlite_sequence: the largest id AUTOINCREMENT has given out
    committed,  \* the rows as of the connection's last commit
    tableRows,  \* barcodes shown in self.table (load_products)
    files,      \* image files present in IMAGE_FOLDER
    lastOp,     \* the last handler run: its inputs and what it reported
    job,        \* the barcode print job in progress (print_selected_barcodes)
    win         \* the running copies of the application that share the
                \* database file: each one's table, open dialog and save
                \* in progress

vars == <<products, seq, committed, tableRows, files, lastOp, job, win>>

(***************************************************************************)
(* Bounds of the model                                                     *)
(***************************************************************************)
\* ids handed out by AUTOINCREMENT
MaxSeq == 2

\* data rows of an imported CSV file
MaxRows == 2

\* ids handed out where an import follows earlier adds and deletes
MaxRunSeq == 3

\* image files uploaded
MaxImages == 1

\* copies asked of one row of the print table (the spin box allows 1..100)
MaxCopies == 2

\* presses of the Print button that collect a selection
MaxJobs == 1

(***************************************************************************)
(* Dialog input (product_dialog): the texts of the form fields             *)
(***************************************************************************)
\* QDate.currentDate()
currentDate == [y |-> 2025, m |-> 6, d |-> 15]

FutureDate == [y |-> 2026, m |-> 1, d |-> 31]

Form(n, q, p, s, e, b, sn, sp) ==
    [name |-> n, qty |-> q, purchase |-> p, sale |-> s, expiry |-> e,
     barcode |-> b, supplier_name |-> sn, supplier_phone |-> sp]

UserBarcode == <<"X", "1">>

FormAuto ==
    Form(<<" ", "a", " ">>, <<"0">>, <<"1", "0", ".", "5">>,
         <<"1", "0", ".", "5", "0">>, currentDate, <<>>, <<>>, <<>>)

FormUser ==
    Form(<<"b">>, <<"5">>, <<"1", "0">>, <<"1", "5">>, FutureDate, UserBarcode,
         <<"s">>, <<"7">>)

FormCheap ==
    Form(<<"b">>, <<"5">>, <<"1", "0">>, <<"9", ".", "9", "9">>, FutureDate,
         <<>>, <<>>, <<>>)

FormNoName ==
    Form(<<" ">>, <<"5">>, <<"1", "0">>, <<"1", "5">>, FutureDate, <<>>, <<>>, <<>>)

FormFree ==
    Form(<<"b">>, <<"5">>, <<"0">>, <<"1", "5">>, FutureDate, <<>>, <<>>, <<>>)

Forms == {FormAuto, FormUser, FormCheap, FormNoName, FormFree}

\* the file name upload_image gives the copy (uuid4 in the code): a name
\* that no file and no product uses
ImageNames == {<<"i", Digits[k + 1]>> : k \in 1..MaxImages}

ImageInUse(name) == name \in files \/ \E r \in products : r.image_path = name

CanUpload == \E nm \in ImageNames : ~ImageInUse(nm)

FreshImage ==
    CHOOSE nm \in ImageNames :
        /\ ~ImageInUse(nm)
        /\ \A o \in ImageNames : ~ImageInUse(o) => DigitVal(nm[2]) <= DigitVal(o[2])

(***************************************************************************)
(* save_product                                                            *)
(***************************************************************************)
\* the column list with the two supplier columns exchanged
SaveColumnsSwapped ==
    <<"name", "quantity", "purchase_price", "sale_price", "expiry_date",
      "barcode", "image_path", "supplier_phone", "supplier_name">>

SaveColumns ==
    <<"name", "quantity", "purchase_price", "sale_price", "expiry_date",
      "barcode", "image_path", "supplier_name", "supplier_phone">>

\* the checks without the comparison of the two prices
SaveCheckNoCompare(form) ==
    LET n == Strip(form.name)
        q == Strip(form.qty)
        p == Strip(form.purchase)
        s == Strip(form.sale)
    IN  IF n = <<>> \/ q = <<>> \/ p = <<>> \/ s = <<>> THEN "missing"
        ELSE LET qv == ParseInt(RemoveCommas(q))
                 pv == ParseFloat(RemoveCommas(p))
                 sv == ParseFloat(RemoveCommas(s))
             IN  IF ~qv.ok \/ ~pv.ok \/ ~sv.ok THEN "bad_number"
                 ELSE IF IntIsNegative(qv) THEN "negative_quantity"
                 ELSE IF DecLeqZero(pv) THEN "purchase_not_positive"
                 ELSE IF DecLeqZero(sv) THEN "sale_not_positive"
                 ELSE IF DateLess(form.expiry, currentDate) THEN "expired"
                 ELSE "valid"

\* the checks of save_product before any statement is issued
SaveCheck(form) ==
    LET n == Strip(form.name)
        q == Strip(form.qty)
        p == Strip(form.purchase)
        s == Strip(form.sale)
    IN  IF n = <<>> \/ q = <<>> \/ p = <<>> \/ s = <<>> THEN "missing"
        ELSE LET qv == ParseInt(RemoveCommas(q))
                 pv == ParseFloat(RemoveCommas(p))
                 sv == ParseFloat(RemoveCommas(s))
             IN  IF ~qv.ok \/ ~pv.ok \/ ~sv.ok THEN "bad_number"
                 ELSE IF IntIsNegative(qv) THEN "negative_quantity"
                 ELSE IF DecLeqZero(pv) THEN "purchase_not_positive"
                 ELSE IF DecLeqZero(sv) THEN "sale_not_positive"
                 ELSE IF DecLess(sv, pv) THEN "sale_below_purchase"
                 ELSE IF DateLess(form.expiry, currentDate) THEN "expired"
                 ELSE "valid"

\* the locals of save_product once the form is read and checked
Entered(form) ==
    [form      |-> form,
     check     |-> SaveCheck(form),
     n         |-> Strip(form.name),
     q_val     |-> ParseInt(RemoveCommas(Strip(form.qty))),
     p_val     |-> ParseFloat(RemoveCommas(Strip(form.purchase))),
     s_val     |-> ParseFloat(RemoveCommas(Strip(form.sale))),
     exp       |-> FormatISO(form.expiry),
     bc        |-> Strip(form.barcode),
     sup_name  |-> Strip(form.supplier_name),
     sup_phone |-> Strip(form.supplier_phone)]

\* what the user can enter: a form, with or without choosing an image
SaveInputs ==
    {[e |-> Entered(f), upload |-> FALSE] : f \in Forms}
    \cup {[e |-> Entered(FormUser), upload |-> TRUE]}

\* the values save_product binds: (n, q_val, p_val, s_val, exp, bc,
\* self.image_path, sup_name, sup_phone); a blank barcode is allocated
SaveValues(ps, e, image) ==
    <<e.n, e.q_val, Dec(e.p_val.m, e.p_val.e), Dec(e.s_val.m, e.s_val.e), e.exp,
      IF e.bc = <<>> THEN AllocateBarcode(ps) ELSE e.bc,
      image, e.sup_name, e.sup_phone>>

\* the statement of save_product: INSERT for a new product, UPDATE keyed by
\* the barcode the dialog was opened with (record[5]) for an edit
SaveStatement(st, vals, record) ==
    IF record = NULL
    THEN SqlInsert(st, SaveColumns, vals)
    ELSE SqlUpdate(st, SaveColumns, vals, record[6])

\* save_product from its checks to its statement: what it reports and the
\* rows after it (before the commit)
SaveProduct(st, e, image, record) ==
    IF e.check # "valid"
    THEN [result |-> e.check, products |-> st.products, seq |-> st.seq, p |-> <<>>]
    ELSE LET vals == SaveValues(st.products, e, image)
             res  == SaveStatement(st, vals, record)
         IN  [result |-> res.status, products |-> res.products, seq |-> res.seq,
              p |-> vals]

\* load_products: the table shows every row
LoadProducts(ps) == Barcodes(ps)

Store == [products |-> products, seq |-> seq]

\* self.image_path when the save button is pressed: the uploaded copy, else
\* the record's image (None or "" count as no image)
DialogImage(upload, record) ==
    IF upload THEN FreshImage
    ELSE IF record = NULL \/ record[7] = NULL THEN <<>>
    ELSE record[7]

\* add_product, the dialog filled in, the image chosen or not, and the
\* save button (save_product with record = None)
AddWith(inputs) ==
    \E in \in inputs :
        /\ in.upload => CanUpload
        /\ \E image \in {DialogImage(in.upload, NULL)} :
           \E out \in {SaveProduct(Store, in.e, image, NULL)} :
               /\ out.seq <= MaxSeq
               /\ files' = IF in.upload THEN files \cup {image} ELSE files
               /\ products' = out.products
               /\ seq' = out.seq
               /\ lastOp' = [op |-> "add", result |-> out.result,
                             form |-> in.e.form, p |-> out.p]
               /\ IF out.result = "ok"
                  THEN /\ committed' = [products |-> out.products, seq |-> out.seq]
                       /\ tableRows' = LoadProducts(out.products)
                  ELSE UNCHANGED <<committed, tableRows>>
        /\ UNCHANGED <<job, win>>

\* add_product with anything the dialog of the model can hold
AddProduct == AddWith(SaveInputs)

\* edit_product on the selected table row, the dialog filled in, and the
\* save button (save_product with the fetched record)
EditWith(inputs) ==
    \E row \in tableRows, in \in inputs :
        \E record \in {EditSelect(products, row)} :
            IF record = NULL
            THEN /\ ~in.upload
                 /\ lastOp' = [op |-> "edit", result |-> "not_in_database"]
                 /\ UNCHANGED <<products, seq, committed, tableRows, files, job, win>>
            ELSE /\ in.upload => CanUpload
                 /\ \E image \in {DialogImage(in.upload, record)} :
                    \E out \in {SaveProduct(Store, in.e, image, record)} :
                        /\ files' = IF in.upload THEN files \cup {image} ELSE files
                        /\ products' = out.products
                        /\ seq' = out.seq
                        /\ lastOp' = [op |-> "edit", result |-> out.result,
                                      form |-> in.e.form, old |-> record[6],
                                      p |-> out.p]
                        /\ IF out.result = "ok"
                           THEN /\ committed' = [products |-> out.products,
                                                 seq |-> out.seq]
                                /\ tableRows' = LoadProducts(out.products)
                           ELSE UNCHANGED <<committed, tableRows>>
                 /\ UNCHANGED <<job, win>>

\* edit_product with anything the dialog of the model can hold
EditProduct == EditWith(SaveInputs)

\* the image file of the row delete_product is about to remove, if it is on
\* disk: {} when there is none
ImageOnDisk(ps, bc) ==
    {r.image_path : r \in {x \in ps : x.barcode = bc}} \cap files

\* how the database answers the DELETE and the commit of delete_product:
\* both succeed, or one of them raises sqlite3.Error (a locked database, an
\* I/O error, a full disk)
DeleteOutcomes == {"ok", "delete_failed", "commit_failed"}

\* delete_product on the selected table row, confirmed with Yes; removing
\* the image file may fail, which the code only prints.  The file is removed
\* before the DELETE is executed; a sqlite3.Error of the DELETE or of the
\* commit is reported and leaves the table as it was.
DeleteWith(outcomes) ==
    \E row \in tableRows, removeFails \in BOOLEAN, db \in outcomes :
        IF row \notin Barcodes(products)
        THEN /\ ~removeFails
             /\ db = "ok"
             /\ lastOp' = [op |-> "delete", result |-> "TypeError", row |-> row]
             /\ UNCHANGED <<products, seq, committed, tableRows, files, job, win>>
        ELSE \E after \in {SqlDelete(products, row)} :
                 /\ removeFails => ImageOnDisk(products, row) # {}
                 /\ files' = IF removeFails THEN files
                             ELSE files \ ImageOnDisk(products, row)
                 /\ products' = IF db = "delete_failed" THEN products ELSE after
                 /\ IF db = "ok"
                    THEN /\ committed' = [products |-> after, seq |-> seq]
                         /\ tableRows' = LoadProducts(after)
                    ELSE UNCHANGED <<committed, tableRows>>
                 /\ lastOp' = [op |-> "delete",
                               result |-> IF db = "ok" THEN "ok"
                                          ELSE "sqlite3.Error",
                               row |-> row]
                 /\ UNCHANGED <<seq, job, win>>

\* delete_product on a database that answers
DeleteProduct == DeleteWith({"ok"})

(***************************************************************************)
(* export_to_csv and import_from_csv.  A CSV file is the sequence of its   *)
(* lines as csv.reader yields them: the header line, then the data rows,   *)
(* each a sequence of cells.                                               *)
(***************************************************************************)
ExportHeader ==
    <<"name", "quantity", "purchase_price", "sale_price",
      "expiry_date", "barcode", "supplier_name", "supplier_phone">>

\* csv.writer writes None as the empty text
Cell(v) == IF v = NULL THEN <<>> ELSE v

\* the line written for one row of the SELECT
ExportRow(r) ==
    <<Cell(r.name), FormatInt(r.quantity), FormatFloat(r.purchase_price),
      FormatFloat(r.sale_price), Cell(r.expiry_date), Cell(r.barcode),
      Cell(r.supplier_name), Cell(r.supplier_phone)>>

\* the rows in the order the SELECT yields them (by rowid)
RECURSIVE RowsById(_)
RowsById(ps) ==
    IF ps = {} THEN <<>>
    ELSE LET r == CHOOSE x \in ps : \A o \in ps : x.id <= o.id
         IN  <<r>> \o RowsById(ps \ {r})

ExportToCsv(ps) ==
    LET rows == RowsById(ps)
    IN  <<ExportHeader>> \o [i \in 1..Len(rows) |-> ExportRow(rows[i])]

\* headers.index(name), counted from 1; 0 when absent
IndexOf(headers, name) ==
    IF \E i \in 1..Len(headers) : headers[i] = name
    THEN CHOOSE i \in 1..Len(headers) :
             headers[i] = name /\ \A k \in 1..(i - 1) : headers[k] # name
    ELSE 0

RequiredHeaders == {"name", "quantity", "purchase_price", "sale_price"}

\* the column positions found in the header line; ValueError when a
\* required header is absent
ResolveColumns(headers) ==
    IF \E h \in RequiredHeaders : IndexOf(headers, h) = 0
    THEN ValueError
    ELSE [ok             |-> TRUE,
          name           |-> IndexOf(headers, "name"),
          quantity       |-> IndexOf(headers, "quantity"),
          purchase_price |-> IndexOf(headers, "purchase_price"),
          sale_price     |-> IndexOf(headers, "sale_price"),
          expiry_date    |-> IndexOf(headers, "expiry_date"),
          barcode        |-> IndexOf(headers, "barcode"),
          supplier_name  |-> IndexOf(headers, "supplier_name"),
          supplier_phone |-> IndexOf(headers, "supplier_phone")]

\* an optional cell: "" when the column is absent or the row is too short
OptionalCell(row, col) == IF col # 0 /\ Len(row) >= col THEN Strip(row[col]) ELSE <<>>

\* a coercion that tries DD/MM/YYYY only
CoerceDateDMYOnly(expiry) ==
    IF expiry = <<>> THEN <<>>
    ELSE LET a == ParseDMY(expiry)
         IN  IF a.ok THEN FormatISO(a) ELSE <<>>

\* the expiry text as stored: DD/MM/YYYY first, then YYYY-MM-DD, else ""
CoerceDate(expiry) ==
    IF expiry = <<>> THEN <<>>
    ELSE LET a == ParseDMY(expiry)
         IN  IF a.ok THEN FormatISO(a)
             ELSE LET b == ParseISO(expiry)
                  IN  IF b.ok THEN FormatISO(b) ELSE <<>>

ImportColumns ==
    <<"name", "quantity", "purchase_price", "sale_price", "expiry_date",
      "barcode", "supplier_name", "supplier_phone">>

SkipRow == [skip |-> TRUE]

\* numeric checks that look at the two prices only
RowPricesBad(qv, pv, sv) == DecLeqZero(pv) \/ DecLeqZero(sv)

\* the numeric checks of a row once its three numbers are parsed
RowNumbersBad(qv, pv, sv) == IntIsNegative(qv) \/ DecLeqZero(pv) \/ DecLeqZero(sv)

\* a row loop that also skips a row whose expiry text is no date
ReadRowSkipBadDate(cols, row) ==
    IF Len(row) < 4 THEN SkipRow
    ELSE IF \E c \in {cols.name, cols.quantity, cols.purchase_price, cols.sale_price} :
                c > Len(row)
    THEN SkipRow
    ELSE
    LET name     == Strip(row[cols.name])
        qty      == Strip(row[cols.quantity])
        purchase == Strip(row[cols.purchase_price])
        sale     == Strip(row[cols.sale_price])
        expiry   == OptionalCell(row, cols.expiry_date)
    IN  IF name = <<>> \/ qty = <<>> \/ purchase = <<>> \/ sale = <<>>
        THEN SkipRow
        ELSE
        LET qv == ParseInt(RemoveCommas(qty))
            pv == ParseFloat(RemoveCommas(purchase))
            sv == ParseFloat(RemoveCommas(sale))
        IN  IF ~qv.ok \/ ~pv.ok \/ ~sv.ok THEN SkipRow
            ELSE IF RowNumbersBad(qv, pv, sv) THEN SkipRow
            ELSE IF expiry # <<>> /\ CoerceDate(expiry) = <<>> THEN SkipRow
            ELSE [skip           |-> FALSE,
                  name           |-> name,
                  q_val          |-> qv,
                  p_val          |-> Dec(pv.m, pv.e),
                  s_val          |-> Dec(sv.m, sv.e),
                  expiry_date    |-> CoerceDate(expiry),
                  barcode_value  |-> OptionalCell(row, cols.barcode),
                  supplier_name  |-> OptionalCell(row, cols.supplier_name),
                  supplier_phone |-> OptionalCell(row, cols.supplier_phone)]

\* the row loop up to the barcode: the locals read from one row, or SkipRow
\* where the loop counts an error and continues
ReadRow(cols, row) ==
    IF Len(row) < 4 THEN SkipRow
    ELSE IF \E c \in {cols.name, cols.quantity, cols.purchase_price, cols.sale_price} :
                c > Len(row)
    THEN SkipRow                                            \* IndexError
    ELSE
    LET name     == Strip(row[cols.name])
        qty      == Strip(row[cols.quantity])
        purchase == Strip(row[cols.purchase_price])
        sale     == Strip(row[cols.sale_price])
    IN  IF name = <<>> \/ qty = <<>> \/ purchase = <<>> \/ sale = <<>>
        THEN SkipRow
        ELSE
        LET qv == ParseInt(RemoveCommas(qty))
            pv == ParseFloat(RemoveCommas(purchase))
            sv == ParseFloat(RemoveCommas(sale))
        IN  IF ~qv.ok \/ ~pv.ok \/ ~sv.ok THEN SkipRow          \* ValueError
            ELSE IF RowNumbersBad(qv, pv, sv) THEN SkipRow
            ELSE [skip           |-> FALSE,
                  name           |-> name,
                  q_val          |-> qv,
                  p_val          |-> Dec(pv.m, pv.e),
                  s_val          |-> Dec(sv.m, sv.e),
                  expiry_date    |-> CoerceDate(OptionalCell(row, cols.expiry_date)),
                  barcode_value  |-> OptionalCell(row, cols.barcode),
                  supplier_name  |-> OptionalCell(row, cols.supplier_name),
                  supplier_phone |-> OptionalCell(row, cols.supplier_phone)]

\* a reader that takes a file lacking a required header for a file
\* without rows
ReadFileLax(file) ==
    IF file = <<>>
    THEN [result |-> "exception", headers |-> <<>>, n |-> 0, rows |-> <<>>]
    ELSE LET cols == ResolveColumns(Head(file))
         IN  IF ~cols.ok
             THEN [result |-> "ok", headers |-> Head(file),
                   n |-> Len(file) - 1, rows |-> <<>>]
             ELSE [result |-> "ok", headers |-> Head(file), n |-> Len(file) - 1,
                   rows |-> [i \in 1..(Len(file) - 1) |-> ReadRow(cols, file[i + 1])]]

\* the file as the handler reads it: the header check and the rows' locals
ReadFile(file) ==
    IF file = <<>>
    THEN [result |-> "exception", headers |-> <<>>, n |-> 0, rows |-> <<>>]
    ELSE LET cols == ResolveColumns(Head(file))
         IN  IF ~cols.ok
             THEN [result |-> "format_error", headers |-> Head(file),
                   n |-> Len(file) - 1, rows |-> <<>>]
             ELSE [result |-> "ok", headers |-> Head(file), n |-> Len(file) - 1,
                   rows |-> [i \in 1..(Len(file) - 1) |-> ReadRow(cols, file[i + 1])]]

Skipped(acc) == [acc EXCEPT !.errors = @ + 1]

\* the rest of one pass of the row loop: barcode defaulting and the INSERT;
\* acc = [products, seq, imported, errors, aborted]
InsertRow(acc, r) ==
    IF r.skip THEN Skipped(acc)
    ELSE
    LET bc  == IF r.barcode_value = <<>> THEN AllocateBarcode(acc.products)
               ELSE r.barcode_value
        res == SqlInsert([products |-> acc.products, seq |-> acc.seq],
                         ImportColumns,
                         <<r.name, r.q_val, r.p_val, r.s_val, r.expiry_date, bc,
                           r.supplier_name, r.supplier_phone>>)
    IN  IF res.status = "ok"
        THEN [acc EXCEPT !.products = res.products, !.seq = res.seq,
                         !.imported = @ + 1]
        ELSE IF res.status = "IntegrityError" THEN Skipped(acc)
        ELSE [acc EXCEPT !.aborted = TRUE]                  \* not caught per row

RECURSIVE ImportRows(_, _)
ImportRows(acc, rows) ==
    IF rows = <<>> \/ acc.aborted THEN acc
    ELSE ImportRows(InsertRow(acc, Head(rows)), Tail(rows))

\* import_from_csv on the file read, up to (not including) the commit
ImportFromCsv(st, read) ==
    LET start == [products |-> st.products, seq |-> st.seq,
                  imported |-> 0, errors |-> 0, aborted |-> FALSE]
    IN  IF read.result # "ok"
        THEN [result |-> read.result] @@ start
        ELSE LET end == ImportRows(start, read.rows)
             IN  [result |-> IF end.aborted THEN "exception" ELSE "ok"] @@ end

(***************************************************************************)
(* The CSV files offered to import_from_csv                                *)
(***************************************************************************)
\* rows under the eight-column header
RowPlain ==
    <<<<"c">>, <<"5">>, <<"1", "0">>, <<"1", "5">>,
      <<"1", "5", "/", "0", "3", "/", "2", "0", "2", "5">>, <<>>, <<>>, <<>>>>

RowBarcode ==
    <<<<" ", "d">>, <<"1", ",", "0", "0", "0">>, <<"2", ".", "5">>, <<"3">>,
      <<"2", "0", "2", "5", "-", "0", "3", "-", "1", "5">>, UserBarcode,
      <<"s">>, <<"7">>>>

RowNegative ==
    <<<<"c">>, <<"-", "3">>, <<"1", "0">>, <<"1", "5">>, <<>>, <<>>, <<>>, <<>>>>

RowHuge ==
    <<<<"c">>, <<"9", "2", "2", "3", "3", "7", "2", "0", "3", "6",
                 "8", "5", "4", "7", "7", "5", "8", "0", "8">>,
      <<"1", "0">>, <<"1", "5">>, <<>>, <<>>, <<>>, <<>>>>

RowPool == {RowPlain, RowBarcode, RowNegative, RowHuge}

\* rows under other headers
RowShort == <<<<"c">>, <<"5">>, <<"1", "0">>>>

RowFour == <<<<"c">>, <<"5">>, <<"1", "0">>, <<"1", "5">>>>

RowCheap == <<<<"c">>, <<"5">>, <<"1", "0">>, <<"5">>, <<"n", "o">>>>

RowBlankName == <<<<" ">>, <<"5">>, <<"1", "0">>, <<"1", "5">>>>

RowBadPrice == <<<<"c">>, <<"5">>, <<"a">>, <<"1", "5">>>>

RowBarcodeFirst == <<UserBarcode, <<"c">>, <<"5">>, <<"1", "0">>, <<"1", "5">>>>

HeaderRequired == <<"name", "quantity", "purchase_price", "sale_price", "expiry_date">>

HeaderNoSale == <<"name", "quantity", "purchase_price", "expiry_date">>

HeaderBarcodeFirst ==
    <<"barcode", "name", "quantity", "purchase_price", "sale_price">>

RowLists(pool, n) == UNION {[1..k -> pool] : k \in 0..n}

CsvFiles ==
    {<<ExportHeader>> \o rows : rows \in RowLists(RowPool, MaxRows)}
    \cup {<<HeaderRequired, RowCheap, r>> : r \in {RowShort, RowBlankName, RowBadPrice}}
    \cup {<<HeaderNoSale>> \o rows : rows \in RowLists({RowFour, RowPlain}, 1)}
    \cup {<<HeaderBarcodeFirst, RowBarcodeFirst, RowFour>>}
    \cup {<<>>}

CsvInputs == {ReadFile(f) : f \in CsvFiles}

\* import_from_csv on a file chosen among files, while the ids stay within
\* bound
ImportFile(files_offered, bound) ==
    \E file \in files_offered :
        \E read \in {ReadFile(file)} :
        \E out \in {ImportFromCsv(Store, read)} :
            /\ out.seq <= bound
            /\ products' = out.products
            /\ seq' = out.seq
            /\ lastOp' = [op |-> "import", result |-> out.result,
                          file |-> file,
                          headers |-> read.headers, rows |-> read.n,
                          imported |-> out.imported, errors |-> out.errors]
            /\ IF out.result = "ok"
               THEN /\ committed' = [products |-> out.products, seq |-> out.seq]
                    /\ tableRows' = LoadProducts(out.products)
               ELSE UNCHANGED <<committed, tableRows>>
            /\ UNCHANGED <<files, job, win>>

\* import_from_csv on the chosen file
ImportCsv == ImportFile(CsvFiles, MaxSeq)

(***************************************************************************)
(* Copies of the application running on the same database file.  Each has  *)
(* its own table widget and its own modal dialog; the statements of each   *)
(* go to the one products table.  A save is two steps there: the checks    *)
(* with the SELECT MAX(id) of the allocation, then the INSERT or UPDATE    *)
(* with its commit.                                                        *)
(***************************************************************************)
Writers == {1, 2}

\* a window with no dialog open; result is what its last handler reported,
\* last_id is -1 while no MAX(id) was read,
\* rival records that another window read the same MAX(id) for an insert of
\* its own while this save was between its read and its statement, with no
\* other statement on the table since
NoWindow ==
    [pc |-> "idle", rows |-> {}, record |-> NULL, values |-> <<>>,
     last_id |-> -1, result |-> "none", rival |-> FALSE]

NoWindows == [w \in Writers |-> NoWindow]


(***************************************************************************)
(* The catalog: every handler that writes the products table               *)
(***************************************************************************)
\* no print job yet: the record of print_selected_barcodes' locals
NoJob ==
    [pc |-> "idle", table |-> <<>>, selection |-> <<>>, show_price |-> TRUE,
     paper_size |-> "large", item |-> 1, copy |-> 0, acquired |-> FALSE,
     hw |-> <<>>, pages |-> <<>>, result |-> "none", jobs |-> 0,
     held |-> FALSE, page |-> [w |-> 0, h |-> 0]]

Init ==
    /\ products = {}
    /\ seq = 0
    /\ committed = [products |-> {}, seq |-> 0]
    /\ tableRows = {}
    /\ files = {}
    /\ lastOp = [op |-> "none"]
    /\ job = NoJob
    /\ win = NoWindows

Next ==
    \/ AddProduct
    \/ EditProduct
    \/ DeleteProduct
    \/ ImportCsv

Spec == Init /\ [][Next]_vars

(***************************************************************************)
(* The handlers of one window among several on the same database           *)
(***************************************************************************)
\* the forms entered in these windows; no image is chosen
SharedInputs == {Entered(FormAuto), Entered(FormUser)}

\* every window forgets its rival: a statement other than the rivals'
\* inserts changed the table
NoRivals(ws) == [v \in Writers |-> [ws[v] EXCEPT !.rival = FALSE]]

\* load_products at start-up or when the search box is cleared
SharedLoad(w) ==
    /\ win[w].pc = "idle"
    /\ win' = [win EXCEPT ![w].rows = LoadProducts(products)]
    /\ UNCHANGED <<products, seq, committed, tableRows, files, lastOp, job>>

\* add_product: the dialog opens empty
SharedOpenAdd(w) ==
    /\ win[w].pc = "idle"
    /\ win' = [win EXCEPT ![w] = [NoWindow EXCEPT !.pc = "dialog",
                                                  !.rows = win[w].rows]]
    /\ UNCHANGED <<products, seq, committed, tableRows, files, lastOp, job>>

\* edit_product on a row of this window's table: the dialog opens on the
\* fetched record, or the warning that the product is not in the database
SharedOpenEdit(w) ==
    /\ win[w].pc = "idle"
    /\ \E row \in win[w].rows :
       \E record \in {EditSelect(products, row)} :
           IF record = NULL
           THEN win' = [win EXCEPT ![w] = [NoWindow EXCEPT
                                               !.rows = win[w].rows,
                                               !.result = "not_in_database"]]
           ELSE win' = [win EXCEPT ![w] = [NoWindow EXCEPT
                                               !.pc = "dialog",
                                               !.rows = win[w].rows,
                                               !.record = record]]
    /\ UNCHANGED <<products, seq, committed, tableRows, files, lastOp, job>>

\* the cancel button of the dialog
SharedCancel(w) ==
    /\ win[w].pc = "dialog"
    /\ win' = [win EXCEPT ![w].pc = "idle"]
    /\ UNCHANGED <<products, seq, committed, tableRows, files, lastOp, job>>

\* the save button, first half: the checks, then for a blank barcode the
\* SELECT MAX(id) and the barcode made of it
SharedSaveCheck(w) ==
    /\ win[w].pc = "dialog"
    /\ \E e \in SharedInputs :
          IF e.check # "valid"
          THEN win' = [win EXCEPT ![w].result = e.check]
          ELSE \E image \in {DialogImage(FALSE, win[w].record)} :
               \E last \in {IF e.bc = <<>> THEN MaxId(products) ELSE -1} :
               \E met \in {{v \in Writers \ {w} :
                               /\ win[v].pc = "write"
                               /\ win[v].record = NULL
                               /\ win[w].record = NULL
                               /\ last # -1
                               /\ win[v].last_id = last}} :
                   /\ win' = [v \in Writers |->
                                IF v = w
                                THEN [win[w] EXCEPT
                                         !.pc = "write",
                                         !.values = SaveValues(products, e, image),
                                         !.last_id = last,
                                         !.result = "none",
                                         !.rival = met # {}]
                                ELSE IF v \in met
                                THEN [win[v] EXCEPT !.rival = TRUE]
                                ELSE win[v]]
    /\ UNCHANGED <<products, seq, committed, tableRows, files, lastOp, job>>

\* the save button, second half: the INSERT or the UPDATE keyed by the
\* barcode the dialog was opened with, the commit, load_products and the
\* success message; on IntegrityError the warning, and the dialog stays open
SharedSaveWrite(w) ==
    /\ win[w].pc = "write"
    /\ \E out \in {SaveStatement(Store, win[w].values, win[w].record)} :
          /\ out.seq <= MaxSeq
          /\ products' = out.products
          /\ seq' = out.seq
          /\ \E ws \in {IF win[w].record = NULL THEN win ELSE NoRivals(win)} :
             IF out.status = "ok"
             THEN /\ committed' = [products |-> out.products, seq |-> out.seq]
                  /\ win' = [ws EXCEPT ![w].pc = "idle",
                                       ![w].result = out.status,
                                       ![w].rows = LoadProducts(out.products)]
             ELSE /\ win' = [ws EXCEPT ![w].pc = "dialog",
                                       ![w].result = out.status]
                  /\ UNCHANGED committed
    /\ UNCHANGED <<tableRows, files, lastOp, job>>

\* delete_product on a row of this window's table, confirmed with Yes: the
\* SELECT of the image path, whose fetchone() is None when the row is gone
SharedDelete(w) ==
    /\ win[w].pc = "idle"
    /\ \E row \in win[w].rows :
          IF row \notin Barcodes(products)
          THEN /\ win' = [win EXCEPT ![w] = [NoWindow EXCEPT
                                                  !.rows = win[w].rows,
                                                  !.result = "TypeError"]]
               /\ UNCHANGED <<products, committed, files>>
          ELSE \E after \in {SqlDelete(products, row)} :
                  /\ files' = files \ ImageOnDisk(products, row)
                  /\ products' = after
                  /\ committed' = [products |-> after, seq |-> seq]
                  /\ win' = [NoRivals(win) EXCEPT
                                ![w] = [NoWindow EXCEPT
                                           !.rows = LoadProducts(after),
                                           !.result = "deleted"]]
    /\ UNCHANGED <<seq, tableRows, lastOp, job>>

NextShared ==
    \E w \in Writers :
        \/ SharedLoad(w)
        \/ SharedOpenAdd(w)
        \/ SharedOpenEdit(w)
        \/ SharedCancel(w)
        \/ SharedSaveCheck(w)
        \/ SharedSaveWrite(w)
        \/ SharedDelete(w)

SpecShared == Init /\ [][NextShared]_vars

(***************************************************************************)
(* Imports into a catalog that adds and deletes have shaped, with one more *)
(* id to hand out: files of rows with and without a barcode                *)
(***************************************************************************)
RunFiles ==
    {<<ExportHeader>> \o rows :
        rows \in RowLists({RowPlain, RowBarcode, RowNegative}, MaxRows)}

ImportRun == ImportFile(RunFiles, MaxRunSeq)

NextImport ==
    \/ AddProduct
    \/ DeleteProduct
    \/ ImportRun

SpecImport == Init /\ [][NextImport]_vars

(***************************************************************************)
(* search_products: the table filtered by the text of the search box       *)
(***************************************************************************)
UpperCase ==
    <<"A", "B", "C", "D", "E", "F", "G", "H", "I", "J", "K", "L", "M",
      "N", "O", "P", "Q", "R", "S", "T", "U", "V", "W", "X", "Y", "Z">>

LowerCase ==
    <<"a", "b", "c", "d", "e", "f", "g", "h", "i", "j", "k", "l", "m",
      "n", "o", "p", "q", "r", "s", "t", "u", "v", "w", "x", "y", "z">>

\* the case folding of LIKE: the 26 ASCII letters only
Fold(c) ==
    IF \E k \in 1..26 : UpperCase[k] = c
    THEN LowerCase[CHOOSE k \in 1..26 : UpperCase[k] = c]
    ELSE c

\* text LIKE pattern, no ESCAPE: % stands for any run of characters, _ for
\* any one character, a letter for itself in either case
RECURSIVE Like(_, _)
Like(text, pattern) ==
    IF pattern = <<>> THEN text = <<>>
    ELSE IF Head(pattern) = "%"
    THEN Like(text, Tail(pattern)) \/ (text # <<>> /\ Like(Tail(text), pattern))
    ELSE IF text = <<>> THEN FALSE
    ELSE IF Head(pattern) = "_" THEN Like(Tail(text), Tail(pattern))
    ELSE Fold(Head(text)) = Fold(Head(pattern)) /\ Like(Tail(text), Tail(pattern))

\* a column LIKE ?: NULL matches nothing
ColumnLike(v, pattern) == v # NULL /\ Like(v, pattern)

\* the rows of SELECT ... WHERE name LIKE ? OR barcode LIKE ? with
\* like = f"%{term}%"
SearchSelect(ps, term) ==
    LET like == <<"%">> \o term \o <<"%">>
    IN  {r \in ps : ColumnLike(r.name, like) \/ ColumnLike(r.barcode, like)}

\* what the user types in the search box
SearchTexts ==
    {<<>>, <<"a">>, <<"B">>, <<"x", "1">>, <<"b", "0">>, <<"z">>,
     <<"_">>, <<"%">>, <<"c", "_", "0">>}

\* search_products on a change of the search box: the whole table for an
\* empty term, else the rows the SELECT yields
SearchProducts ==
    \E text \in SearchTexts :
        \E term \in {Strip(text)} :
            /\ tableRows' = IF term = <<>> THEN LoadProducts(products)
                             ELSE Barcodes(SearchSelect(products, term))
            /\ lastOp' = [op |-> "search", text |-> text]
            /\ UNCHANGED <<products, seq, committed, files, job, win>>

NextSearch ==
    \/ AddProduct
    \/ DeleteProduct
    \/ SearchProducts

SpecSearch == Init /\ [][NextSearch]_vars


(***************************************************************************)
(* Properties of the catalog                                               *)
(***************************************************************************)
\* the step just taken was a save from the add dialog that issued its INSERT
AddIssued == lastOp'.op = "add" /\ lastOp'.p # <<>>

\* C1: in every reachable catalog no two products share a barcode, and an
\* INSERT from the add dialog fails with the conflict error exactly when its
\* barcode is already in the catalog, leaving the rows as they were; else it
\* succeeds and the catalog gains exactly one row with that barcode.
C1_BarcodeUniqueness ==
    [][/\ \A a, b \in products' : a.barcode = b.barcode => a = b
       /\ AddIssued =>
             /\ lastOp'.result \in {"ok", "IntegrityError"}
             /\ lastOp'.result = "IntegrityError"
                    <=> lastOp'.p[6] \in Barcodes(products)
             /\ lastOp'.result = "IntegrityError" => products' = products
             /\ lastOp'.result = "ok" =>
                    /\ products \subseteq products'
                    /\ Cardinality(products') = Cardinality(products) + 1
                    /\ lastOp'.p[6] \in Barcodes(products')]_vars

\* a second add of a barcode already in the catalog was refused
C1_Witness ==
    /\ lastOp.op = "add"
    /\ lastOp.result = "IntegrityError"
    /\ lastOp.p[6] \in Barcodes(products)

\* C2: after a successful add of the product P (the values the dialog
\* bound), the SELECT of the edit dialog on P's barcode returns P in all nine
\* fields.
C2_InsertThenGet ==
    [][(AddIssued /\ lastOp'.result = "ok") =>
          EditSelect(products', lastOp'.p[6]) =
              <<lastOp'.p[1], IntValue(lastOp'.p[2]), lastOp'.p[3], lastOp'.p[4],
                lastOp'.p[5], lastOp'.p[6], lastOp'.p[7], lastOp'.p[8],
                lastOp'.p[9]>>]_vars

\* a product was added with an image and both supplier fields
C2_Witness ==
    /\ lastOp.op = "add"
    /\ lastOp.result = "ok"
    /\ lastOp.p[7] \in ImageNames
    /\ lastOp.p[8] # <<>>
    /\ lastOp.p[9] # <<>>
    /\ lastOp.p[6] \in Barcodes(products)

\* bc is "CB" followed by n written with eight digits
IsAllocated(bc, n) ==
    /\ Len(bc) = 10
    /\ bc[1] = "C"
    /\ bc[2] = "B"
    /\ AllDigits(SubSeq(bc, 3, 10))
    /\ DigitsToNat(SubSeq(bc, 3, 10)) = n

FirstBarcode == <<"C", "B", "0", "0", "0", "0", "0", "0", "0", "1">>

SecondBarcode == <<"C", "B", "0", "0", "0", "0", "0", "0", "0", "2">>

\* the step just taken was a save from the add dialog with the barcode field
\* left blank
AddAllocated == AddIssued /\ Strip(lastOp'.form.barcode) = <<>>

\* C3 (as amended): the allocated barcode is always "CB" followed by
\* MAX(id) + 1 zero-padded to eight digits; on an empty catalog it is
\* CB00000001; and when the catalog holds the one record ever inserted
\* (nothing was deleted before), the next allocation is CB00000002.
C3_Allocator ==
    [][/\ IsAllocated(AllocateBarcode(products'), MaxId(products') + 1)
       /\ products' = {} => AllocateBarcode(products') = FirstBarcode
       /\ (Cardinality(products') = 1 /\ seq' = 1) =>
              AllocateBarcode(products') = SecondBarcode
       /\ AddAllocated =>
              /\ IsAllocated(lastOp'.p[6], MaxId(products) + 1)
              /\ products = {} => lastOp'.p[6] = FirstBarcode
              /\ (Cardinality(products) = 1 /\ seq = 1) =>
                     lastOp'.p[6] = SecondBarcode]_vars

\* the second product ever added got its barcode from the allocator, after
\* the first one
C3_Witness ==
    /\ lastOp.op = "add"
    /\ lastOp.result = "ok"
    /\ Strip(lastOp.form.barcode) = <<>>
    /\ lastOp.p[6] = SecondBarcode
    /\ Cardinality(products) = 2

\* C3 as the claim states it: after one record is inserted into an empty
\* catalog the next allocation is CB00000002, whatever was inserted and
\* deleted before.
C3_Original ==
    [][/\ IsAllocated(AllocateBarcode(products'), MaxId(products') + 1)
       /\ products' = {} => AllocateBarcode(products') = FirstBarcode
       /\ (products = {} /\ Cardinality(products') = 1) =>
              AllocateBarcode(products') = SecondBarcode]_vars

\* export_to_csv on the catalog, then import_from_csv of that file on an
\* empty table
Reimport(ps) ==
    ImportFromCsv([products |-> {}, seq |-> 0], ReadFile(ExportToCsv(ps)))

\* the eight fields export_to_csv writes
Exported(r) ==
    <<r.name, r.quantity, r.purchase_price, r.sale_price, r.expiry_date,
      r.barcode, r.supplier_name, r.supplier_phone>>

\* the image reference of a record; NULL and "" both stand for no image
ImageOf(r) == IF r.image_path \in {NULL, <<>>} THEN <<>> ELSE r.image_path

\* C4 (as amended): exporting any reachable catalog and importing the file
\* into an empty catalog skips no row and reproduces every record in the
\* eight exported fields (name, quantity, both prices, expiry date, barcode,
\* supplier name and phone).
C4_RoundTrip ==
    LET out == Reimport(products)
    IN  /\ out.result = "ok"
        /\ out.errors = 0
        /\ out.imported = Cardinality(products)
        /\ {Exported(r) : r \in out.products} = {Exported(r) : r \in products}
        /\ Cardinality(out.products) = Cardinality(products)

\* a catalog of two products, one with an expiry date and a supplier
C4_Witness ==
    /\ Cardinality(products) = 2
    /\ \E r \in products : r.expiry_date # <<>> /\ r.supplier_name # <<>>
    /\ Reimport(products).imported = 2

\* C4 as the claim states it: the re-imported records are identical, the
\* image reference included.
C4_Original ==
    LET out == Reimport(products)
    IN  /\ out.result = "ok"
        /\ out.errors = 0
        /\ {<<Exported(r), ImageOf(r)>> : r \in out.products}
               = {<<Exported(r), ImageOf(r)>> : r \in products}

\* C5 as the claim states it: an import whose header row has the required
\* headers is never aborted by one of its rows; it ends normally with
\* imported + skipped = number of data rows.
C5_ImportIsolation ==
    (/\ lastOp.op = "import"
     /\ lastOp.headers # <<>>
     /\ \A h \in RequiredHeaders : IndexOf(lastOp.headers, h) # 0)
        => /\ lastOp.result = "ok"
           /\ lastOp.imported + lastOp.errors = lastOp.rows

\* the step just taken was an import of a file whose header row lacks a
\* required header
ImportLackingHeader ==
    /\ lastOp'.op = "import"
    /\ lastOp'.headers # <<>>
    /\ \E h \in {"name", "quantity", "purchase_price", "sale_price"} :
          \A i \in 1..Len(lastOp'.headers) : lastOp'.headers[i] # h

\* C6: an import of a file whose header row lacks name, quantity,
\* purchase_price or sale_price reports a format error and leaves the rows,
\* the id sequence and the committed catalog as they were.
C6_MissingHeader ==
    [][ImportLackingHeader =>
          /\ lastOp'.result = "format_error"
          /\ lastOp'.imported = 0
          /\ products' = products
          /\ seq' = seq
          /\ committed' = committed]_vars

\* a file with data rows but no sale_price column was refused on a catalog
\* that holds products
C6_Witness ==
    /\ lastOp.op = "import"
    /\ lastOp.result = "format_error"
    /\ lastOp.rows > 0
    /\ products # {}

\* both prices of the form are numbers and the sale price is the smaller
SaleBelowPurchase(form) ==
    LET pv == ParseFloat(RemoveCommas(Strip(form.purchase)))
        sv == ParseFloat(RemoveCommas(Strip(form.sale)))
    IN  pv.ok /\ sv.ok /\ DecLess(sv, pv)

\* C7: a save from the add or the edit dialog whose sale price is below its
\* purchase price is refused before any statement is issued, and the rows,
\* the id sequence and the committed catalog stay as they were.
C7_SaleBelowPurchase ==
    [][(/\ lastOp'.op \in {"add", "edit"}
        /\ lastOp'.result # "not_in_database"
        /\ SaleBelowPurchase(lastOp'.form))
          => /\ lastOp'.result \notin {"ok", "IntegrityError", "OverflowError"}
             /\ lastOp'.p = <<>>
             /\ products' = products
             /\ seq' = seq
             /\ committed' = committed]_vars

\* an edit of an existing product was refused for its prices
C7_Witness ==
    /\ lastOp.op = "edit"
    /\ lastOp.result = "sale_below_purchase"
    /\ lastOp.old \in Barcodes(products)

\* C8 as the claim states it: no step stores a new or changed record whose
\* sale price is below its purchase price.
C8_SaleAtLeastPurchase ==
    [][\A r \in products' \ products :
          ~DecLess(r.sale_price, r.purchase_price)]_vars

(***************************************************************************)
(* print_barcode and print_selected_barcodes: the label print job          *)
(***************************************************************************)
\* the three entries of the paper size box, told apart by the words the code
\* looks for in them
PaperSizes == {"small", "medium", "large"}

\* the paper size box and the price check box as the user leaves them
PrintOptions ==
    {[paper_size |-> "small", show_price |-> TRUE],
     [paper_size |-> "medium", show_price |-> FALSE],
     [paper_size |-> "large", show_price |-> TRUE]}

\* how many calls of a copy reach the printer before one raises: none, or
\* the two set calls and the name
WritesBeforeFailure == {0, 3}

\* f"{product_price:,.2f}": two decimals, thousands separated by commas
RECURSIVE GroupThousands(_)
GroupThousands(s) ==
    IF Len(s) <= 3 THEN s
    ELSE GroupThousands(SubSeq(s, 1, Len(s) - 3)) \o <<",">>
         \o SubSeq(s, Len(s) - 2, Len(s))

Cents(d) ==
    IF d.e <= 2 THEN d.m * Pow10(2 - d.e)
    ELSE LET q == d.m \div Pow10(d.e - 2)
             r == d.m % Pow10(d.e - 2)
             h == Pow10(d.e - 2) \div 2
         IN  IF r > h \/ (r = h /\ q % 2 = 1) THEN q + 1 ELSE q

FormatMoney(d) ==
    GroupThousands(NatToChars(Cents(d) \div 100)) \o <<".">>
    \o ZFill(NatToChars(Cents(d) % 100), 2)

\* SELECT name, sale_price FROM products WHERE barcode=? with the defaults
\* the code takes when the row is gone
ProductData(ps, bc) ==
    IF \E r \in ps : r.barcode = bc
    THEN LET r == CHOOSE x \in ps : x.barcode = bc
         IN  [product_name |-> r.name, product_price |-> r.sale_price]
    ELSE [product_name |-> <<>>, product_price |-> Dec(0, 0)]

\* font size and barcode height of the direct path for a paper size
DirectProfile(paper_size) ==
    IF paper_size = "small" THEN [size |-> 1, barcode_height |-> 40]
    ELSE IF paper_size = "medium" THEN [size |-> 2, barcode_height |-> 60]
    ELSE [size |-> 3, barcode_height |-> 80]

Command(cmd, arg, n) == [cmd |-> cmd, arg |-> arg, n |-> n]

\* a loop body that sends the price after the barcode
DirectCommandsPriceLast(ps, bc, paper_size, show_price) ==
    LET d  == ProductData(ps, bc)
        pr == DirectProfile(paper_size)
    IN  <<Command("set", <<"center">>, pr.size),
          Command("set", <<"a">>, pr.size),
          Command("text", d.product_name \o <<"\n">>, 0),
          Command("barcode", bc, pr.barcode_height)>>
        \o (IF show_price
            THEN <<Command("set", <<"b">>, pr.size),
                   Command("text",
                           <<"P", "r", "i", "x", ":", " ">>
                           \o FormatMoney(d.product_price)
                           \o <<" ", "D", "A", "\n">>, 0)>>
            ELSE <<>>)
        \o <<Command("text", <<"\n", "\n">>, 0)>>

\* the ESC/POS calls of one copy, in the order the loop body issues them
DirectCommands(ps, bc, paper_size, show_price) ==
    LET d  == ProductData(ps, bc)
        pr == DirectProfile(paper_size)
    IN  <<Command("set", <<"center">>, pr.size),
          Command("set", <<"a">>, pr.size),
          Command("text", d.product_name \o <<"\n">>, 0)>>
        \o (IF show_price
            THEN <<Command("set", <<"b">>, pr.size),
                   Command("text",
                           <<"P", "r", "i", "x", ":", " ">>
                           \o FormatMoney(d.product_price)
                           \o <<" ", "D", "A", "\n">>, 0)>>
            ELSE <<>>)
        \o <<Command("barcode", bc, pr.barcode_height),
             Command("text", <<"\n", "\n">>, 0)>>

(***************************************************************************)
(* The geometry of a label on the fallback path.  Lengths are in device    *)
(* units of the QPrinter; the code's float arithmetic is carried out       *)
(* exactly, on fractions n/d in lowest terms.                              *)
(***************************************************************************)
RECURSIVE GCD(_, _)
GCD(a, b) == IF b = 0 THEN a ELSE GCD(b, a % b)

\* the fraction n/d (d > 0) in lowest terms
Q(n, d) ==
    LET g == GCD(IF n < 0 THEN 0 - n ELSE n, d)
    IN  IF n = 0 THEN [n |-> 0, d |-> 1] ELSE [n |-> n \div g, d |-> d \div g]

QAdd(a, b) == Q(a.n * b.d + b.n * a.d, a.d * b.d)

QSub(a, b) == Q(a.n * b.d - b.n * a.d, a.d * b.d)

QMul(a, b) == Q(a.n * b.n, a.d * b.d)

QDiv(a, b) == Q(a.n * b.d, a.d * b.n)

QLeq(a, b) == a.n * b.d <= b.n * a.d

QRectF(x, y, w, h) == [x |-> x, y |-> y, w |-> w, h |-> h]

\* setPaperSize(QSizeF(w, h), QPrinter.Millimeter) for the chosen size
PaperMillimeters(paper_size) ==
    IF paper_size = "small" THEN [w |-> 40, h |-> 20]
    ELSE IF paper_size = "medium" THEN [w |-> 50, h |-> 30]
    ELSE [w |-> 58, h |-> 40]

\* dots per inch of the printers the system print dialog offers
Resolutions == {300, 1200}

\* printer.pageRect() of a full-page QPrinter at a resolution: the paper in
\* whole device units
PageRect(paper_size, dpi) ==
    [w |-> (PaperMillimeters(paper_size).w * dpi * 10) \div 254,
     h |-> (PaperMillimeters(paper_size).h * dpi * 10) \div 254]

\* options['module_width'] and options['module_height'] for a paper size
ImageOptions(paper_size) ==
    IF paper_size = "small" THEN [module_width |-> Q(25, 100), module_height |-> Q(8, 1)]
    ELSE IF paper_size = "medium"
    THEN [module_width |-> Q(3, 10), module_height |-> Q(12, 1)]
    ELSE [module_width |-> Q(35, 100), module_height |-> Q(16, 1)]

\* target_rect, product_rect and price_rect of one copy, from the paper
\* size, the page rectangle and len(barcode_value)
Layout(paper_size, page, length) ==
    LET options    == ImageOptions(paper_size)
        width      == Q(page.w, 1)
        img_width  == QMul(width, Q(9, 10))
        img_height == QMul(img_width,
                           QDiv(options.module_height,
                                QMul(options.module_width, Q(length, 1))))
        barcode_x  == QDiv(QSub(width, img_width), Q(2, 1))
        barcode_y  == QMul(Q(page.h, 1), Q(1, 10))
        below      == QAdd(barcode_y, img_height)
    IN  [target_rect  |-> QRectF(barcode_x, barcode_y, img_width, img_height),
         product_rect |-> QRectF(Q(10, 1), QAdd(below, Q(5, 1)),
                                 QSub(width, Q(20, 1)), Q(30, 1)),
         price_rect   |-> QRectF(Q(10, 1), QAdd(below, Q(25, 1)),
                                 QSub(width, Q(20, 1)), Q(30, 1))]

\* a layout that moves each further copy of a barcode down the page
CopyLayoutStepped(j, bc) ==
    LET l == Layout(j.paper_size, j.page, Len(bc))
    IN  [l EXCEPT !.target_rect.y = QAdd(@, Q(j.copy, 1))]

\* the rectangles of the copy the loop is at
CopyLayout(j, bc) == Layout(j.paper_size, j.page, Len(bc))

\* what the fallback path draws for one copy
Label(ps, bc, show_price) ==
    LET d == ProductData(ps, bc)
    IN  [barcode |-> bc,
         name    |-> d.product_name,
         price   |-> IF show_price
                     THEN <<"P", "r", "i", "x", " ", ":", " ">>
                          \o FormatMoney(d.product_price) \o <<" ", "D", "A">>
                     ELSE <<>>]

\* temp_barcode_<barcode>.png in BARCODE_FOLDER
TempFile(bc) == <<"temp_barcode_">> \o bc \o <<".png">>

RECURSIVE Ascending(_)
Ascending(S) ==
    IF S = {} THEN <<>>
    ELSE LET m == CHOOSE x \in S : \A y \in S : x <= y
         IN  <<m>> \o Ascending(S \ {m})

\* barcodes_to_print: the checked rows of the table, top to bottom, each
\* with the value of its spin box
BarcodesToPrint(table, checked, copies) ==
    LET rows == Ascending(checked)
    IN  [i \in 1..Len(rows) |-> <<table[rows[i]][2], copies[rows[i]]>>]

\* the two loops' position after one more copy
NextCopy(j) ==
    IF j.copy + 1 < j.selection[j.item][2]
    THEN [j EXCEPT !.copy = @ + 1]
    ELSE [j EXCEPT !.item = @ + 1, !.copy = 0]

\* a page advance after every copy, the last one included
NeedsNewPageAlways(j) == j.item <= Len(j.selection)

\* _ < copies - 1 or (barcode_value, copies) != barcodes_to_print[-1]
NeedsNewPage(j) ==
    \/ j.copy < j.selection[j.item][2] - 1
    \/ j.selection[j.item] # j.selection[Len(j.selection)]

\* print_barcode: the dialog opens on the table of all products
PrintBarcode ==
    /\ job.pc = "idle"
    /\ \E rows \in {RowsById(products)} :
          job' = [job EXCEPT !.pc = "dialog",
                             !.table = [i \in 1..Len(rows) |->
                                           <<rows[i].name, rows[i].barcode>>]]
    /\ UNCHANGED <<products, seq, committed, tableRows, files, lastOp, win>>

\* the Cancel button of the dialog
CancelPrint ==
    /\ job.pc = "dialog"
    /\ job' = [job EXCEPT !.pc = "idle"]
    /\ UNCHANGED <<products, seq, committed, tableRows, files, lastOp, win>>

\* the Print button: the selection is collected and the thermal printer is
\* opened, which works (usb) or raises
PrintSelected ==
    /\ job.pc = "dialog"
    /\ \E checked \in SUBSET (1..Len(job.table)),
          copies \in [1..Len(job.table) -> 1..MaxCopies],
          opt \in PrintOptions, usb \in BOOLEAN :
          IF checked = {}
          THEN /\ ~usb /\ opt.paper_size = "large"
               /\ \A i \in 1..Len(job.table) : copies[i] = 1
               /\ job' = [job EXCEPT !.result = "nothing_selected"]
          ELSE /\ job.jobs < MaxJobs
               /\ \A i \in 1..Len(job.table) : i \notin checked => copies[i] = 1
               /\ job' = [job EXCEPT
                             !.pc = IF usb THEN "direct" ELSE "fallback",
                             !.selection = BarcodesToPrint(job.table, checked, copies),
                             !.show_price = opt.show_price,
                             !.paper_size = opt.paper_size,
                             !.item = 1, !.copy = 0, !.acquired = usb,
                             !.held = usb,
                             !.hw = <<>>, !.pages = <<>>, !.result = "running",
                             !.page = [w |-> 0, h |-> 0],
                             !.jobs = @ + 1]
    /\ UNCHANGED <<products, seq, committed, tableRows, files, lastOp, win>>

\* one pass of the direct loop: the calls of a copy reach the printer one
\* by one until one of them raises, which ends the direct attempt
DirectCopy ==
    /\ job.pc = "direct"
    /\ job.item <= Len(job.selection)
    /\ \E cmds \in {DirectCommands(products, job.selection[job.item][1],
                                     job.paper_size, job.show_price)} :
       \E sent \in WritesBeforeFailure \cup {Len(cmds)} :
          job' = IF sent = Len(cmds)
                 THEN [NextCopy(job) EXCEPT !.hw = @ \o cmds]
                 ELSE [job EXCEPT !.hw = @ \o SubSeq(cmds, 1, sent),
                                  !.pc = "fallback"]
    /\ UNCHANGED <<products, seq, committed, tableRows, files, lastOp, win>>

\* after the loops: printer.cut(), then the dialog is accepted and the
\* handler returns. The Usb object is never closed: it is only let go of
\* with the local variable, and whether that frees the device (closed) is
\* left to the library's finalizer
DirectCut ==
    /\ job.pc = "direct"
    /\ job.item > Len(job.selection)
    /\ \E cut \in BOOLEAN, closed \in BOOLEAN :
          /\ closed => cut
          /\ job' = IF cut
                    THEN [job EXCEPT !.hw = @ \o <<Command("cut", <<>>, 0)>>,
                                     !.pc = "idle", !.result = "direct",
                                     !.held = ~closed]
                    ELSE [job EXCEPT !.pc = "fallback"]
    /\ UNCHANGED <<products, seq, committed, tableRows, files, lastOp, win>>

\* the fallback opens by binding `printer` to a QPrinter, which lets go of
\* an opened Usb object without closing it (closed: the finalizer freed the
\* device), then the system print dialog and painter.begin
FallbackBegin ==
    /\ job.pc = "fallback"
    /\ \E answer \in {"rejected", "begin_failed", "accepted"},
          closed \in BOOLEAN, dpi \in Resolutions :
          /\ closed => job.held
          /\ answer # "accepted" => dpi = 300
          /\ job' = IF answer = "rejected"
                    THEN [job EXCEPT !.pc = "idle", !.result = "not_printed",
                                     !.held = @ /\ ~closed]
                    ELSE IF answer = "begin_failed"
                    THEN [job EXCEPT !.pc = "dialog", !.result = "begin_failed",
                                     !.held = @ /\ ~closed]
                    ELSE [job EXCEPT !.pc = "render", !.item = 1, !.copy = 0,
                                     !.pages = << <<>> >>,
                                     !.page = PageRect(job.paper_size, dpi),
                                     !.held = @ /\ ~closed]
    /\ UNCHANGED <<products, seq, committed, tableRows, files, lastOp, win>>

\* one pass of the fallback loop: the barcode image is saved to its
\* temporary file, loaded, drawn with the texts, the page is advanced and
\* the file removed (which is taken to work); a failure to save or to load
\* leaves the loop
FallbackCopy ==
    /\ job.pc = "render"
    /\ job.item <= Len(job.selection)
    /\ \E outcome \in {"drawn", "save_failed", "image_null"},
          bc \in {job.selection[job.item][1]}, n \in {Len(job.pages)} :
              IF outcome = "drawn"
              THEN /\ job' = [NextCopy(job) EXCEPT
                                 !.pages =
                                     [@ EXCEPT ![n] = @ \o
                                         <<Label(products, bc, job.show_price)
                                           @@ CopyLayout(job, bc)>>]
                                     \o (IF NeedsNewPage(job) THEN << <<>> >>
                                         ELSE <<>>)]
                   /\ files' = files \ {TempFile(bc)}
              ELSE /\ job' = [job EXCEPT !.pc = "idle", !.result = "render_error"]
                   /\ files' = IF outcome = "image_null"
                               THEN files \cup {TempFile(bc)} ELSE files
    /\ UNCHANGED <<products, seq, committed, tableRows, lastOp, win>>

\* after the loops: painter.end(), then the dialog is accepted
FallbackEnd ==
    /\ job.pc = "render"
    /\ job.item > Len(job.selection)
    /\ job' = [job EXCEPT !.pc = "idle", !.result = "fallback"]
    /\ UNCHANGED <<products, seq, committed, tableRows, files, lastOp, win>>

\* the catalog the print jobs run on: two products added by hand
PrintCatalog ==
    LET first  == SaveProduct([products |-> {}, seq |-> 0], Entered(FormAuto),
                              <<>>, NULL)
        second == SaveProduct([products |-> first.products, seq |-> first.seq],
                              Entered(FormUser), <<>>, NULL)
    IN  [products |-> second.products, seq |-> second.seq, p |-> second.p]

InitPrint ==
    \E c \in {PrintCatalog} :
        /\ products = c.products
        /\ seq = c.seq
        /\ committed = [products |-> c.products, seq |-> c.seq]
        /\ tableRows = LoadProducts(c.products)
        /\ files = {}
        /\ lastOp = [op |-> "add", result |-> "ok", form |-> FormUser, p |-> c.p]
        /\ job = NoJob
        /\ win = NoWindows

NextPrint ==
    \/ PrintBarcode
    \/ CancelPrint
    \/ PrintSelected
    \/ DirectCopy
    \/ DirectCut
    \/ FallbackBegin
    \/ FallbackCopy
    \/ FallbackEnd

SpecPrint == InitPrint /\ [][NextPrint]_vars


(***************************************************************************)
(* Properties of the print job                                             *)
(***************************************************************************)
\* the copies a selection asks for
RECURSIVE TotalCopies(_)
TotalCopies(sel) ==
    IF sel = <<>> THEN 0 ELSE Head(sel)[2] + TotalCopies(Tail(sel))

\* the barcode of every copy of a selection, in printing order
RECURSIVE CopiesInOrder(_)
CopiesInOrder(sel) ==
    IF sel = <<>> THEN <<>>
    ELSE [i \in 1..Head(sel)[2] |-> Head(sel)[1]] \o CopiesInOrder(Tail(sel))

\* every page holds one label, and the labels are the copies in order
OneCopyPerPage(j) ==
    /\ Len(j.pages) = TotalCopies(j.selection)
    /\ \A i \in 1..Len(j.pages) :
          /\ Len(j.pages[i]) = 1
          /\ j.pages[i][1].barcode = CopiesInOrder(j.selection)[i]

\* C9 (as amended): when the thermal printer cannot be opened, nothing is
\* sent to it; if the user then confirms the system print dialog, the
\* painter starts and every copy renders, a selection of N copies yields
\* exactly N pages, one copy on each in selection order, with no page after
\* the last copy; if the user declines the dialog no page is produced.
C9_Fallback ==
    ~job.acquired =>
        /\ job.hw = <<>>
        /\ job.result = "fallback" => OneCopyPerPage(job)
        /\ job.result = "not_printed" => job.pages = <<>>

\* a job of three copies went through the fallback after the printer could
\* not be opened
C9_Witness ==
    /\ ~job.acquired
    /\ job.result = "fallback"
    /\ TotalCopies(job.selection) = 3
    /\ Len(job.pages) = 3
    /\ Len(job.selection) = 2

\* C9 as the claim states it: every job whose printer could not be opened
\* ends with exactly N pages and nothing sent to the printer.
C9_Original ==
    (/\ ~job.acquired
     /\ job.result \in {"fallback", "not_printed", "render_error", "begin_failed"})
        => /\ job.hw = <<>>
           /\ OneCopyPerPage(job)

\* C10 as the claim states it: once the direct attempt is given up nothing
\* has reached the thermal printer, and no job has both printer output and
\* drawn pages.
C10_AllOrNothing ==
    /\ job.pc \in {"fallback", "render"} => job.hw = <<>>
    /\ ~(job.hw # <<>> /\ \E i \in 1..Len(job.pages) : job.pages[i] # <<>>)

\* C11 as the claim states it: once a print job has left the direct
\* attempt (it ended, or it went on to the fallback), the thermal printer it
\* opened is no longer held.
C11_PrinterReleased ==
    job.pc \in {"idle", "dialog", "render"} => ~job.held

(***************************************************************************)
(* Updates and deletes                                                     *)
(***************************************************************************)
\* the save in window w issues its statement in this step, for an edit
UpdateIssued(w) ==
    /\ win[w].pc = "write"
    /\ win'[w].pc # "write"
    /\ win[w].record # NULL

\* C12 as the claim states it: an update whose old barcode matches no
\* record (the record was removed after the dialog was opened on it) is
\* reported as NotFoundError, never as a successful save, and leaves the
\* catalog unchanged.
C12_UpdateNotFound ==
    [][\A w \in Writers :
          (UpdateIssued(w) /\ win[w].record[6] \notin Barcodes(products))
          => (win'[w].result = "NotFoundError" /\ products' = products)]_vars

\* a save of the edit dialog ran its statement in this step
EditSaved ==
    /\ lastOp'.op = "edit"
    /\ lastOp'.result \in {"ok", "IntegrityError"}

\* the new barcode of the edit is held by a record other than the edited one
Collides(old, new) == \E r \in products : r.barcode = new /\ r.barcode # old

\* C13: an update fails with a conflict, every record unchanged, exactly
\* when the new barcode is the barcode of a different record; otherwise
\* (own barcode kept, or changed to an unused one) it succeeds, the record
\* is then found under the new barcode and no longer under the old one,
\* and the other records are as before.
C13_UpdateConflict ==
    [][EditSaved =>
          LET old == lastOp'.old
              new == lastOp'.p[6]
          IN  IF Collides(old, new)
              THEN lastOp'.result = "IntegrityError" /\ products' = products
              ELSE /\ lastOp'.result = "ok"
                   /\ EditSelect(products', new) # NULL
                   /\ EditSelect(products', new)[1] = lastOp'.p[1]
                   /\ new # old => EditSelect(products', old) = NULL
                   /\ {r \in products' : r.barcode # new}
                          = {r \in products : r.barcode # old}
                   /\ Cardinality(products') = Cardinality(products)]_vars

\* an edit was refused because its barcode belongs to another record, and
\* that record and the edited one are both still there
C13_Witness ==
    /\ lastOp.op = "edit"
    /\ lastOp.result = "IntegrityError"
    /\ lastOp.old # lastOp.p[6]
    /\ {lastOp.old, lastOp.p[6]} \subseteq Barcodes(products)

\* C14 as the claim states it: a delete of a barcode that matches no record
\* ends in a reported NotFoundError with the catalog unchanged, never in an
\* unhandled failure; a delete of an existing barcode removes exactly that
\* record.
C14_DeleteReports ==
    [][\A w \in Writers :
          /\ win'[w].result # "TypeError"
          /\ (win[w].pc = "idle" /\ win'[w].result = "deleted"
                 /\ win'[w] # win[w] /\ products' # products)
             => \E row \in win[w].rows :
                   /\ products' = {r \in products : r.barcode # row}
                   /\ Cardinality(products') = Cardinality(products) - 1]_vars

(***************************************************************************)
(* Import: dates, allocated barcodes, stored values                        *)
(***************************************************************************)
DateDMY == <<"1", "5", "/", "0", "3", "/", "2", "0", "2", "5">>

DateISO == <<"2", "0", "2", "5", "-", "0", "3", "-", "1", "5">>

\* the row with its expiry cell emptied
WithoutExpiry(cols, row) ==
    IF cols.expiry_date # 0 /\ Len(row) >= cols.expiry_date
    THEN [row EXCEPT ![cols.expiry_date] = <<>>]
    ELSE row

\* the rows this import step added
Added == products' \ products

\* C15: on import an expiry text in DD/MM/YYYY or, failing that, in
\* YYYY-MM-DD is stored as that date in YYYY-MM-DD ("15/03/2025" and
\* "2025-03-15" give the same stored date); a text in neither format is
\* stored as no date, and the row is read, inserted and counted exactly as
\* it would be with its expiry cell empty: it is not skipped for its date.
C15_DateCoercion ==
    [][(lastOp'.op = "import" /\ lastOp'.result = "ok") =>
          \A file \in {lastOp'.file} :
          \A cols \in {ResolveColumns(Head(file))} :
          \A bare \in {[i \in 1..Len(file) |->
                          IF i = 1 THEN file[i] ELSE WithoutExpiry(cols, file[i])]} :
          \A read \in {ReadFile(file)}, same \in {ImportFromCsv(Store, ReadFile(bare))} :
              /\ \A i \in 1..(Len(file) - 1) :
                    \A text \in {OptionalCell(file[i + 1], cols.expiry_date)},
                       r \in {read.rows[i]} :
                    \A dmy \in {ParseDMY(text)}, iso \in {ParseISO(text)} :
                        /\ r.skip = ReadRow(cols, bare[i + 1]).skip
                        /\ ~r.skip =>
                              /\ text \in {DateDMY, DateISO} => r.expiry_date = DateISO
                              /\ dmy.ok => r.expiry_date = FormatISO(dmy)
                              /\ (~dmy.ok /\ iso.ok) => r.expiry_date = FormatISO(iso)
                              /\ (~dmy.ok /\ ~iso.ok) => r.expiry_date = <<>>
              /\ lastOp'.imported = same.imported
              /\ lastOp'.errors = same.errors
              /\ Cardinality(Added) = lastOp'.imported
              /\ {r.expiry_date : r \in Added}
                    = {read.rows[i].expiry_date :
                          i \in {k \in 1..(Len(file) - 1) :
                                    /\ ~read.rows[k].skip
                                    /\ \E r \in Added :
                                          r.name = read.rows[k].name}}]_vars

\* a file whose only valid row carries an expiry text that is no date was
\* imported: one row inserted, stored without a date, one row skipped
C15_Witness ==
    /\ lastOp.op = "import"
    /\ lastOp.result = "ok"
    /\ lastOp.file = <<HeaderRequired, RowCheap, RowShort>>
    /\ lastOp.imported = 1
    /\ lastOp.errors = 1
    /\ \E r \in products : r.name = <<"c">> /\ r.expiry_date = <<>>

\* the number an allocated barcode carries after "CB"
BarcodeNumber(bc) == DigitsToNat(SubSeq(bc, 3, Len(bc)))

\* the row loop retold row by row: for each row whether it supplies no
\* barcode (auto), whether it was inserted, the barcode the allocator gives
\* it, MAX(id) and the AUTOINCREMENT mark as the row is processed, and the
\* id it is stored under
RECURSIVE RowTrace(_, _)
RowTrace(acc, rows) ==
    IF rows = <<>> \/ acc.aborted THEN <<>>
    ELSE LET r   == Head(rows)
             nxt == InsertRow(acc, r)
         IN  <<[auto     |-> ~r.skip /\ r.barcode_value = <<>>,
                inserted |-> nxt.imported = acc.imported + 1,
                bc       |-> AllocateBarcode(acc.products),
                last_id  |-> MaxId(acc.products),
                seq      |-> acc.seq,
                id       |-> nxt.seq]>>
             \o RowTrace(nxt, Tail(rows))

\* the row trace of the import this step ran
ThisImport ==
    RowTrace([products |-> products, seq |-> seq, imported |-> 0,
              errors |-> 0, aborted |-> FALSE],
             ReadFile(lastOp'.file).rows)

\* rows i and i + 1 of the trace both supply no barcode and are inserted
BothAllocated(t, i) ==
    /\ t[i].auto /\ t[i].inserted
    /\ t[i + 1].auto /\ t[i + 1].inserted

\* C16 (as amended): within one import, of two consecutive rows that supply
\* no barcode and are inserted, each is given the number MAX(id) + 1 as it
\* stands when the row is processed; the later number is the id the earlier
\* row was stored under plus one, so it is greater than the earlier number,
\* and exactly one greater precisely when MAX(id) was the largest id ever
\* assigned as the earlier row was processed (the newest record was not
\* deleted before the import).
C16_SequentialAllocation ==
    [][lastOp'.op = "import" =>
          \A t \in {ThisImport} :
          \A i \in 1..(Len(t) - 1) :
              BothAllocated(t, i) =>
                  /\ BarcodeNumber(t[i].bc) = t[i].last_id + 1
                  /\ BarcodeNumber(t[i + 1].bc) = t[i + 1].last_id + 1
                  /\ BarcodeNumber(t[i + 1].bc) = t[i].id + 1
                  /\ BarcodeNumber(t[i + 1].bc) > BarcodeNumber(t[i].bc)
                  /\ BarcodeNumber(t[i + 1].bc) = BarcodeNumber(t[i].bc) + 1
                        <=> t[i].seq <= t[i].last_id
                  /\ {t[i].bc, t[i + 1].bc} \subseteq Barcodes(products')]_vars

\* an import into a catalog whose only record had been deleted gave its
\* first two rows CB00000001 and CB00000003
C16_Witness ==
    /\ lastOp.op = "import"
    /\ lastOp.imported >= 2
    /\ \E a, b \in products :
          /\ a.id = 2 /\ IsAllocated(a.barcode, 1)
          /\ b.id = 3 /\ IsAllocated(b.barcode, 3)

\* C16 as the claim states it: for any starting catalog state, deletions
\* included, the later of two consecutive auto-assigned numbers is exactly
\* one greater than the earlier.
C16_Original ==
    [][lastOp'.op = "import" =>
          \A t \in {ThisImport} :
          \A i \in 1..(Len(t) - 1) :
              BothAllocated(t, i) =>
                  BarcodeNumber(t[i + 1].bc) = BarcodeNumber(t[i].bc) + 1]_vars

\* the stored values of a row are those of a valid product
ValidStored(r) ==
    /\ r.name # NULL /\ r.name # <<>> /\ Strip(r.name) = r.name
    /\ r.quantity >= 0
    /\ r.purchase_price.m > 0
    /\ r.sale_price.m > 0

\* C17: in every reachable catalog state, after any sequence of saves,
\* edits, imports and deletes, every stored product has a non-empty name, a
\* quantity >= 0, a purchase price > 0 and a sale price > 0; this holds of
\* the rows the connection sees and of the rows last committed.
C17_StoredValuesValid ==
    /\ \A r \in products : ValidStored(r)
    /\ \A r \in committed.products : ValidStored(r)

\* an import skipped a row with a negative quantity and stored the row
\* after it
C17_Witness ==
    /\ lastOp.op = "import"
    /\ lastOp.result = "ok"
    /\ lastOp.file = <<ExportHeader, RowNegative, RowPlain>>
    /\ lastOp.imported = 1
    /\ lastOp.errors = 1
    /\ products # {}

(***************************************************************************)
(* Allocation by several writers                                           *)
(***************************************************************************)
\* the saves of windows w and v are rivals: both are inserts of a barcode
\* allocated from the same MAX(id), each read before the other's INSERT
Rivals(w, v) ==
    /\ w # v
    /\ win[w].rival /\ win[v].rival
    /\ win[w].record = NULL /\ win[v].record = NULL
    /\ win[w].last_id # -1
    /\ win[w].last_id = win[v].last_id
    /\ win[w].values[6] = win[v].values[6]

\* the save of window w has run its INSERT
Inserted(w) == win[w].result \in {"ok", "IntegrityError"}

\* C18: when two writers read the same MAX(id), compute the same barcode
\* and both insert, at most one insert succeeds and the other gets the
\* conflict error, whichever order the two reads and the two inserts come
\* in; and the catalog never holds two records with one barcode.
C18_ConcurrentAllocation ==
    /\ \A a, b \in products : a.barcode = b.barcode => a = b
    /\ \A w, v \in Writers :
          (Rivals(w, v) /\ Inserted(w) /\ Inserted(v)) =>
              /\ ~(win[w].result = "ok" /\ win[v].result = "ok")
              /\ win[w].result = "ok" => win[v].result = "IntegrityError"
              /\ Cardinality({r \in products :
                                 r.barcode = win[w].values[6]}) <= 1

\* both windows allocated CB00000001 from the empty table; the first
\* window's insert succeeded and the second window's was refused
C18_Witness ==
    /\ Rivals(1, 2)
    /\ win[1].last_id = 0
    /\ win[1].values[6] = FirstBarcode
    /\ win[1].result = "ok"
    /\ win[2].result = "IntegrityError"
    /\ Cardinality(products) = 1

\* the last handler was a save from the add dialog, barcode left blank,
\* whose INSERT was refused for its barcode
AllocatedInsertRefused ==
    /\ lastOp.op = "add"
    /\ lastOp.result = "IntegrityError"
    /\ Strip(lastOp.form.barcode) = <<>>

\* C19 as the claim states it: after an insert with an allocated barcode
\* was refused for a conflict, running the allocator again on the catalog as
\* the refused insert left it gives a barcode no record holds, so that the
\* retried insert succeeds.
C19_RetrySucceeds ==
    AllocatedInsertRefused =>
        /\ AllocateBarcode(products) \notin Barcodes(products)
        /\ SaveProduct(Store, Entered(lastOp.form), <<>>, NULL).result = "ok"

(***************************************************************************)
(* Search                                                                  *)
(***************************************************************************)
FoldText(t) == [i \in 1..Len(t) |-> Fold(t[i])]

\* sub occurs in text as it stands, letter case aside
Contains(text, sub) ==
    \E k \in 0..(Len(text) - Len(sub)) :
        SubSeq(FoldText(text), k + 1, k + Len(sub)) = FoldText(sub)

\* C20 as the claim states it: the table after a search holds exactly the
\* products whose name or barcode contains the filter text (taken without
\* its surrounding blanks) as a literal substring, letter case aside, for
\* every filter text, those with % and _ included; an empty filter gives
\* every product.
C20_LiteralFilter ==
    lastOp.op = "search" =>
        \A term \in {Strip(lastOp.text)} :
            tableRows =
                IF term = <<>> THEN Barcodes(products)
                ELSE {r.barcode : r \in {x \in products :
                         Contains(x.name, term) \/ Contains(x.barcode, term)}}

(***************************************************************************)
(* Label geometry                                                          *)
(***************************************************************************)
\* the labels the job has drawn so far
DrawnLabels(j) ==
    UNION {{j.pages[i][k] : k \in 1..Len(j.pages[i])} : i \in 1..Len(j.pages)}

Rects(label) == <<label.target_rect, label.product_rect, label.price_rect>>

RECURSIVE Printing(_)
Printing(hw) ==
    IF hw = <<>> THEN <<>>
    ELSE (IF Head(hw).cmd = "set" THEN <<>> ELSE <<Head(hw)>>)
         \o Printing(Tail(hw))

\* what the claim expects of one copy: name, price if shown, barcode, spacing
ExpectedCopy(bc, show_price) ==
    LET r == CHOOSE x \in products : x.barcode = bc
    IN  <<[cmd |-> "text", arg |-> r.name \o <<"\n">>]>>
        \o (IF show_price
            THEN <<[cmd |-> "text",
                    arg |-> <<"P", "r", "i", "x", ":", " ">>
                            \o FormatMoney(r.sale_price)
                            \o <<" ", "D", "A", "\n">>]>>
            ELSE <<>>)
        \o <<[cmd |-> "barcode", arg |-> bc],
             [cmd |-> "text", arg |-> <<"\n", "\n">>]>>

RECURSIVE ExpectedStream(_, _)
ExpectedStream(copies, show_price) ==
    IF copies = <<>> THEN <<>>
    ELSE ExpectedCopy(Head(copies), show_price)
         \o ExpectedStream(Tail(copies), show_price)

\* C22: a direct job that completes has sent, for every pair of the
\* selection in order and for each of its copies, the name text, the price
\* text exactly when the price is shown, the barcode and the spacing text;
\* then one cut, the only one and the last command; and it has drawn no
\* page.
C22_DirectStream ==
    job.result = "direct" =>
        \A sent \in {Printing(job.hw)} :
            /\ [i \in 1..Len(sent) |-> [cmd |-> sent[i].cmd, arg |-> sent[i].arg]]
                  = ExpectedStream(CopiesInOrder(job.selection), job.show_price)
                    \o <<[cmd |-> "cut", arg |-> <<>>]>>
            /\ Cardinality({i \in 1..Len(job.hw) : job.hw[i].cmd = "cut"}) = 1
            /\ job.hw[Len(job.hw)].cmd = "cut"
            /\ job.pages = <<>>

\* a direct job of three copies of two products, prices shown, completed
C22_Witness ==
    /\ job.result = "direct"
    /\ job.show_price
    /\ Len(job.selection) = 2
    /\ TotalCopies(job.selection) = 3

\* the temporary barcode images a job on this catalog can create
TempFiles == {TempFile(bc) : bc \in Barcodes(products)}

\* C23 as the claim states it: whenever no fallback loop is running, on
\* whichever path the last job ended, none of the temporary barcode image
\* files is left.
C23_TempFilesRemoved ==
    job.pc # "render" => files \cap TempFiles = {}

\* the top and the bottom edge of a rectangle
Top(r) == r.y

Bottom(r) == QAdd(r.y, r.h)

\* C24 as the claim states it: on a label drawn with its price, the top
\* edge of the price rectangle is at or below the bottom edge of the name
\* rectangle, so the two do not overlap.
C24_PriceBelowName ==
    \A a \in DrawnLabels(job) :
        job.show_price => QLeq(Bottom(a.product_rect), Top(a.price_rect))

(***************************************************************************)
(* The catalog on a database that may refuse the DELETE or the commit of   *)
(* delete_product.                                                         *)
(***************************************************************************)
DeleteAttempt == DeleteWith(DeleteOutcomes)

NextDelete == AddProduct \/ DeleteAttempt

SpecDelete == Init /\ [][NextDelete]_vars

\* C29 as the claim states it: a delete attempt that leaves the record in
\* the catalog has not removed the image file the record refers to.
C29_ImageKept ==
    [][\A row \in Barcodes(products) :
          (/\ lastOp'.op = "delete"
           /\ lastOp'.row = row
           /\ row \in Barcodes(products'))
          => ImageOnDisk(products, row) \subseteq files']_vars

\* the rectangle r lies entirely within a page of w by h device units
Within(r, page) ==
    /\ QLeq(Q(0, 1), r.x)
    /\ QLeq(Q(0, 1), r.y)
    /\ QLeq(QAdd(r.x, r.w), Q(page.w, 1))
    /\ QLeq(QAdd(r.y, r.h), Q(page.h, 1))

\* C30 as the claim states it: for every profile, page rectangle and
\* allocated (10 character) barcode, the rectangle the barcode image is
\* drawn into lies entirely within the page rectangle.
C30_ImageWithinPage ==
    \A a \in DrawnLabels(job) :
        Len(a.barcode) = 10 => Within(a.target_rect, job.page)

(***************************************************************************)
(* The catalog when a barcode of the allocator's form is also typed in     *)
(* (or scanned from a printed label): adds and deletes.                    *)
(***************************************************************************)
TypedBarcode == <<"C", "B", "0", "0", "0", "0", "0", "0", "0", "2">>

FormTyped ==
    Form(<<"b">>, <<"5">>, <<"1", "0">>, <<"1", "5">>, FutureDate, TypedBarcode,
         <<>>, <<>>)

\* what the user can enter, the typed barcode included
GapInputs == SaveInputs \cup {[e |-> Entered(FormTyped), upload |-> FALSE]}

AddGap == AddWith(GapInputs)

NextGap == AddGap \/ DeleteProduct

SpecGap == Init /\ [][NextGap]_vars

\* C25: a delete never raises MAX(id) and can lower it below the ids given
\* out; an add that left the barcode blank and was refused had allocated
\* the barcode numbered MAX(id) + 1, and a record still in the catalog
\* holds that barcode.
C25_AllocationAfterDelete ==
    /\ MaxId(products) <= seq
    /\ AllocatedInsertRefused =>
           /\ BarcodeNumber(lastOp.p[6]) = MaxId(products) + 1
           /\ lastOp.p[6] \in Barcodes(products)

\* the collision after a delete: ids up to seq were given out, the delete
\* of the newest row lowered MAX(id), and the barcode allocated afterwards
\* is the one an older record still holds
C25_Witness ==
    /\ AllocatedInsertRefused
    /\ MaxId(products) < seq
    /\ products # {}
    /\ lastOp.p[6] \in Barcodes(products)

(***************************************************************************)
(* The catalog when no barcode is ever supplied: adds with the barcode     *)
(* field left blank, imports of rows without a barcode, and deletes.       *)
(***************************************************************************)
BlankInputs == {in \in SaveInputs : in.e.bc = <<>>}

BlankFiles ==
    {<<ExportHeader>> \o rows : rows \in RowLists({RowPlain, RowNegative}, MaxRows)}

AddBlank == AddWith(BlankInputs)

ImportBlank == ImportFile(BlankFiles, MaxRunSeq)

NextBlank == AddBlank \/ ImportBlank \/ DeleteProduct

SpecBlank == Init /\ [][NextBlank]_vars

\* C26: when every insert leaves the barcode to the allocator, starting
\* from the empty catalog and with deletes in between, no add is refused
\* for its barcode, every import row that reaches the INSERT is inserted,
\* and the barcode the allocator would give next is held by no record.
C26_BlankInsertsNeverConflict ==
    [][/\ lastOp'.op = "add" => lastOp'.result # "IntegrityError"
       /\ lastOp'.op = "import" =>
              \A t \in {ThisImport} :
              \A i \in 1..Len(t) : t[i].auto => t[i].inserted
       /\ AllocateBarcode(products') \notin Barcodes(products')]_vars

\* an add after the delete of the newest record: it was given a number
\* below the id it is stored under, and was accepted
C26_Witness ==
    /\ lastOp.op = "add"
    /\ lastOp.result = "ok"
    /\ \E r \in products :
          /\ r.barcode = lastOp.p[6]
          /\ BarcodeNumber(r.barcode) < r.id

(***************************************************************************)
(* The catalog when every save leaves the barcode field blank: adds,       *)
(* edits and deletes.                                                      *)
(***************************************************************************)
EditBlank == EditWith(BlankInputs)

NextBlankEdit == AddBlank \/ EditBlank \/ DeleteProduct

SpecBlankEdit == Init /\ [][NextBlankEdit]_vars

\* C27 as the claim states it: when every add and every edit leaves the
\* barcode field blank, starting from the empty catalog, no save is refused
\* for a barcode conflict.
C27_BlankSavesNeverConflict ==
    lastOp.op \in {"add", "edit"} => lastOp.result # "IntegrityError"

\* the rows inserted on the connection since its last commit; only an
\* import that ended with an exception after its header check leaves any
\* (an add or an edit commits, or is refused and changes nothing)
Pending == {r \in products : r.id \notin {c.id : c \in committed.products}}

\* C28 as the claim states it: the rows an import inserted before it ended
\* with an error are never persisted; no later commit of a save, a delete
\* or another import makes them part of the stored catalog.
C28_AbortedRowsDiscarded ==
    [][\A r \in Pending : r.id \notin {c.id : c \in committed'.products}]_vars

====
